---- MODULE Spec2Model ----
(***************************************************************************)
(* A model of the futarchy trading swarm: the personality registry, the    *)
(* prediction-to-decision interpreters, the per-agent nonce discipline and *)
(* the orchestrator's trading loop.                                        *)
(*                                                                         *)
(* Numbers that are floats in the program are fixed-point integers here:   *)
(* thresholds, sentiments and confidences are in thousandths (1000 = 1.0), *)
(* the Virtual price is in half dollars (40 = $20.00), the AI token prices *)
(* are whole dollars and the Allora combined value / interval bounds are   *)
(* in thousandths.                                                         *)
(***************************************************************************)
EXTENDS Integers, Sequences, FiniteSets, TLC

(***************************************************************************)
(* Bounds of the model.                                                    *)
(***************************************************************************)
\* largest Virtual price drawn, in half dollars (60 = $30.00)
MaxPrice2 == 60

VARIABLES
    \* ---- personality registry and decision engine ----
    INVISIBLE_CITIES,         \* catalog of allora_game_agent (cities)
    TRADER_PERSONALITIES,     \* catalog of allora_personalities
    PREDICTOR_PERSONALITIES,  \* catalog of allora_predictor
    assigned,                 \* per identity: first and latest assignment returned
    call,                     \* the latest interpreter call: inputs and outcome
    \* ---- one TraderAgent and the ledger's view of its account ----
    nonce,                    \* self.nonce (NoNonce for None)
    funded,                   \* self.funded
    txcount,                  \* w3.eth.get_transaction_count(self.address)
    pending,                  \* nonces of the agent's transactions accepted, not yet mined
    pc,                       \* where the agent is: between operations or inside one
    sends,                    \* the agent's latest sends (at most two), oldest first
    \* ---- start_swarm.trading_loop and the market it trades on ----
    lpc,                      \* position in trading_loop
    num_traders,              \* len(traders)
    num_focus,                \* len(focus_proposals)
    focus_index,              \* index of the for loop over focus_proposals
    total_trades,             \* total_trades
    failed_trades,            \* failed_trades
    consecutive_failures,     \* consecutive_failures
    deadline_passed,          \* int(time.time()) > the market's deadline
    status,                   \* the market's status on chain (0 = open)
    graduate_calls,           \* invocations of traders[0].graduate_market
    launches,                 \* invocations of launch_agent_token
    attempts,                 \* trade attempts made by the while loop
    attempt_failed,           \* whether the latest of them failed
    streak,                   \* how many of them failed in a row, up to now
    traded,                   \* whether trading_loop has attempted a trade
    late_start,               \* whether the deadline had passed on entry
    accepted,                 \* what check_winning_proposal gave after the graduation
    \* ---- the loop's termination checks, applied to a given loop state ----
    check,                    \* the state given, and what the check did with it
    \* ---- start_swarm.main up to its call of trading_loop ----
    main,                     \* position, pool being initialized, proposals so far
    \* ---- one trade attempt, and one fetch from the oracle ----
    tried,                    \* the trader's personality, the predictions, what trade() chose
    fetch                     \* the call, the caches, what the oracle does, the result

catalogVars == <<INVISIBLE_CITIES, TRADER_PERSONALITIES, PREDICTOR_PERSONALITIES>>

decideVars == <<INVISIBLE_CITIES, TRADER_PERSONALITIES, PREDICTOR_PERSONALITIES,
                assigned, call>>

nonceVars == <<nonce, funded, txcount, pending, pc, sends>>

loopVars == <<lpc, num_traders, num_focus, focus_index, total_trades, failed_trades,
              consecutive_failures, deadline_passed, status, graduate_calls,
              launches, attempts, attempt_failed, streak, traded, late_start,
              accepted>>

swarmVars == <<check, main, tried, fetch>>

\* everything that belongs to the agents and the orchestrator
agentVars == <<nonceVars, loopVars, swarmVars>>

vars == <<decideVars, agentVars>>

(***************************************************************************)
(* Small arithmetic helpers (Python builtins).                             *)
(***************************************************************************)
Abs(x) == IF x < 0 THEN -x ELSE x
Min(a, b) == IF a < b THEN a ELSE b
Max(a, b) == IF a > b THEN a ELSE b

(***************************************************************************)
(* The catalogs.  Each personality keeps the fields the interpreters read. *)
(***************************************************************************)
Personality(n, thr, cw, bias) ==
    [name |-> n, bullish_threshold |-> thr, confidence_weight |-> cw,
     action_bias |-> bias]

InvisibleCitiesCatalog ==
    << Personality("Euphemia",  150, 800, "contrarian"),
       Personality("Chloe",     -50, 500, "momentum"),
       Personality("Eutropia",    0, 700, "cyclical"),
       Personality("Ersilia",    50, 750, "network"),
       Personality("Esmeralda",   0, 600, "hedging") >>

TraderPersonalitiesCatalog ==
    << Personality("Illia Polosukhin",    0, 700, "aggressive"),
       Personality("Brian Armstrong",   100, 800, "cautious"),
       Personality("Satoshi Nakamoto", -100, 100, "yolo"),
       Personality("Michael Saylor",   -200,   0, "yolo"),
       Personality("Vitalik Buterin",     0, 800, "balanced"),
       Personality("ZachXBT",           200, 900, "strategic"),
       Personality("Yat Siu",           -50, 400, "aggressive"),
       Personality("Rune Christensen",    0, 700, "balanced"),
       Personality("CZ",                 20, 900, "cautious"),
       Personality("Larry Fink",         50, 800, "strategic"),
       Personality("Jeff Yan",            0, 500, "momentum"),
       Personality("Justin Sun",       -100, 200, "aggressive") >>

PredictorPersonalitiesCatalog ==
    << Personality("Raoul Pal",           0, 700, "aggressive"),
       Personality("Peter Schiff",        0, 300, "contrarian"),
       Personality("Satoshi Nakamoto", -100, 100, "yolo"),
       Personality("Arthur Hayes",       50, 500, "momentum"),
       Personality("Vitalik Buterin",     0, 800, "balanced"),
       Personality("Cobie",             -10, 300, "yolo"),
       Personality("Su Zhu",             10, 400, "aggressive"),
       Personality("SBF",                 0, 200, "quick"),
       Personality("CZ",                 20, 900, "cautious"),
       Personality("Ansem",             -50, 400, "aggressive"),
       Personality("GCR",                30, 700, "strategic"),
       Personality("Tetranode",           0, 600, "strategic") >>

NoPersonality == Personality("", 0, 0, "")

(***************************************************************************)
(* Identities and their MD5 digests (hashlib.md5(address.encode())), as    *)
(* the 16 digest bytes, most significant first.                            *)
(***************************************************************************)
Identities ==
    { "0x1111111111111111111111111111111111111111",
      "0x2222222222222222222222222222222222222222",
      "0x9876543210987654321098765432109876543210" }

Md5Digest(address) ==
    CASE address = "0x1111111111111111111111111111111111111111" ->
           <<216, 167, 22, 72, 255, 242, 105, 126, 82, 46, 143, 124, 205, 125, 79, 164>>
      [] address = "0x2222222222222222222222222222222222222222" ->
           <<159, 164, 150, 173, 0, 160, 4, 81, 201, 204, 165, 125, 12, 50, 216, 146>>
      [] address = "0x9876543210987654321098765432109876543210" ->
           <<35, 8, 69, 118, 236, 215, 65, 57, 149, 62, 116, 52, 161, 54, 107, 108>>

\* int(hexdigest, 16) % n, by Horner's rule over the digest bytes
RECURSIVE BytesMod(_, _, _, _)
BytesMod(bytes, i, acc, n) ==
    IF i > Len(bytes) THEN acc
    ELSE BytesMod(bytes, i + 1, (acc * 256 + bytes[i]) % n, n)

HashIndex(address, n) == BytesMod(Md5Digest(address), 1, 0, n)

\* a wrong variant: the index taken modulo one less than the catalog length
PersonalityIndexShort(address, catalog) == HashIndex(address, Len(catalog) - 1) + 1

\* hash_int % len(catalog), as a 1-based index
PersonalityIndex(address, catalog) == HashIndex(address, Len(catalog)) + 1

\* allora_game_agent.get_trader_personality
get_trader_personality_city(address) ==
    INVISIBLE_CITIES[PersonalityIndex(address, INVISIBLE_CITIES)]

\* allora_personalities.get_trader_personality
get_trader_personality(address) ==
    TRADER_PERSONALITIES[PersonalityIndex(address, TRADER_PERSONALITIES)]

(***************************************************************************)
(* Decisions and the outcome of a call.  A Python call either returns a    *)
(* value or raises; try/except turns a raise of the body into the return   *)
(* of the handler.                                                         *)
(***************************************************************************)
Decision(b, a, c) == [is_bullish |-> b, action |-> a, confidence |-> c]

NoDecision == Decision(FALSE, "none", 0)

\* the handlers' "return False, 'sell', 0.3"
ErrorDefault == Decision(FALSE, "sell", 300)

Return(v) == [raised |-> FALSE, value |-> v]

Raise == [raised |-> TRUE, value |-> NoDecision]

\* a wrong variant: no handler, the exception leaves the function
TryExceptPropagates(body, handler) == body

\* try: body / except Exception: return handler
TryExcept(body, handler) == IF body.raised THEN Return(handler) ELSE body

\* personality["bullish_threshold"] or personality["action_bias"], which every
\* interpreter reads on every path, raises KeyError
MissingField(personality) ==
    ~({"bullish_threshold", "action_bias"} \subseteq DOMAIN personality)

\* "buy" if is_bullish else "sell"
DefaultAction(is_bullish) == IF is_bullish THEN "buy" ELSE "sell"

\* "sell" if is_bullish else "buy"
OppositeAction(is_bullish) == IF is_bullish THEN "sell" ELSE "buy"

(***************************************************************************)
(* allora_game_agent.interpret_virtual_price.  The price is a record       *)
(* [wellTyped, price2]: a float in half dollars, or a value (None, a       *)
(* string) on which the arithmetic raises.                                 *)
(***************************************************************************)
\* sentiment_score = (virtual_price - 20) / 20, in thousandths
VirtualSentiment(price2) == (price2 - 40) * 25

\* confidence_score = min(1.0, abs(sentiment_score) * 2 + 0.3)
VirtualConfidence(price2) == Min(1000, Abs(VirtualSentiment(price2)) * 2 + 300)

\* a wrong variant: the amplified confidence without its cap of 1.0
AmplifyUncapped(confidence) == (confidence * 3) \div 2

\* min(1.0, confidence_score * 1.5)
Amplify(confidence) == Min(1000, (confidence * 3) \div 2)

\* a wrong variant: the strong-move amplification left out
VirtualMomentumNoAmplify(price2, personality) ==
    LET is_bullish == VirtualSentiment(price2) > personality.bullish_threshold
    IN  Decision(is_bullish, DefaultAction(is_bullish), VirtualConfidence(price2))

VirtualMomentum(price2, personality) ==
    LET sentiment_score == VirtualSentiment(price2)
        is_bullish == sentiment_score > personality.bullish_threshold
        confidence_score ==
            IF Abs(sentiment_score) > 200
            THEN Amplify(VirtualConfidence(price2))
            ELSE VirtualConfidence(price2)
    IN  Decision(is_bullish, DefaultAction(is_bullish), confidence_score)

VirtualContrarian(price2, personality) ==
    LET is_bullish == ~(VirtualSentiment(price2) > personality.bullish_threshold)
    IN  Decision(is_bullish, OppositeAction(is_bullish), VirtualConfidence(price2))

\* a wrong variant: the deep-dip override left out
VirtualCyclicalNoDip(price2, personality) ==
    LET is_bullish == VirtualSentiment(price2) > personality.bullish_threshold
    IN  IF price2 > 50 THEN Decision(FALSE, "sell", VirtualConfidence(price2))
        ELSE Decision(is_bullish, DefaultAction(is_bullish), VirtualConfidence(price2))

\* a wrong variant: the prices 15 and 25 themselves are overridden too
VirtualCyclicalInclusive(price2, personality) ==
    LET is_bullish == VirtualSentiment(price2) > personality.bullish_threshold
    IN  IF price2 <= 30 THEN Decision(TRUE, "buy", VirtualConfidence(price2))
        ELSE IF price2 >= 50 THEN Decision(FALSE, "sell", VirtualConfidence(price2))
        ELSE Decision(is_bullish, DefaultAction(is_bullish), VirtualConfidence(price2))

VirtualCyclical(price2, personality) ==
    LET is_bullish == VirtualSentiment(price2) > personality.bullish_threshold
    IN  IF price2 < 30 THEN Decision(TRUE, "buy", VirtualConfidence(price2))
        ELSE IF price2 > 50 THEN Decision(FALSE, "sell", VirtualConfidence(price2))
        ELSE Decision(is_bullish, DefaultAction(is_bullish), VirtualConfidence(price2))

\* a wrong variant: an uncertain signal is not turned into bearish + sell
VirtualNetworkUnforced(price2, personality) ==
    LET is_bullish == VirtualSentiment(price2) > personality.bullish_threshold
    IN  Decision(is_bullish, DefaultAction(is_bullish), VirtualConfidence(price2))

VirtualNetwork(price2, personality) ==
    LET is_bullish == VirtualSentiment(price2) > personality.bullish_threshold
        confidence_score == VirtualConfidence(price2)
    IN  IF confidence_score < personality.confidence_weight
        THEN Decision(FALSE, "sell", confidence_score)
        ELSE Decision(is_bullish, DefaultAction(is_bullish), confidence_score)

\* a wrong variant: the parity of the price is not looked at
VirtualHedgingNoParity(price2, personality) ==
    LET is_bullish == VirtualSentiment(price2) > personality.bullish_threshold
    IN  Decision(is_bullish, DefaultAction(is_bullish), VirtualConfidence(price2))

\* virtual_price % 2 < 1, the price in half dollars
VirtualHedging(price2, personality) ==
    LET is_bullish == VirtualSentiment(price2) > personality.bullish_threshold
    IN  IF price2 % 4 < 2
        THEN Decision(is_bullish, DefaultAction(is_bullish), VirtualConfidence(price2))
        ELSE Decision(is_bullish, OppositeAction(is_bullish), VirtualConfidence(price2))

VirtualBalanced(price2, personality) ==
    LET is_bullish == VirtualSentiment(price2) > personality.bullish_threshold
    IN  Decision(is_bullish, DefaultAction(is_bullish), VirtualConfidence(price2))

\* the body of the try block
interpret_virtual_price_body(virtual_price, personality) ==
    IF ~virtual_price.wellTyped \/ MissingField(personality) THEN Raise
    ELSE LET p == virtual_price.price2
             action_bias == personality.action_bias
         IN  Return(CASE action_bias = "contrarian" -> VirtualContrarian(p, personality)
                      [] action_bias = "momentum"   -> VirtualMomentum(p, personality)
                      [] action_bias = "cyclical"   -> VirtualCyclical(p, personality)
                      [] action_bias = "network"    -> VirtualNetwork(p, personality)
                      [] action_bias = "hedging"    -> VirtualHedging(p, personality)
                      [] OTHER                      -> VirtualBalanced(p, personality))

interpret_virtual_price(virtual_price, personality) ==
    TryExcept(interpret_virtual_price_body(virtual_price, personality), ErrorDefault)

(***************************************************************************)
(* allora_personalities.interpret_ai_market_prediction.  The predictions   *)
(* are a record [wellTyped, prices]: prices maps token names to whole      *)
(* dollar prices (possibly no token at all); a value that is not a dict of *)
(* floats makes the arithmetic raise.                                      *)
(***************************************************************************)
AI_TOKEN_TOPICS == {"Virtual/USDT", "Aixbt/USDT", "VaderAI/USDT", "Sekoia/USDT"}

RECURSIVE SumPrices(_, _)
SumPrices(prices, tokens) ==
    IF tokens = {} THEN 0
    ELSE LET t == CHOOSE x \in tokens : TRUE
         IN  prices[t] + SumPrices(prices, tokens \ {t})

MaxPriceOf(prices) == CHOOSE m \in {prices[t] : t \in DOMAIN prices} :
                          \A t \in DOMAIN prices : prices[t] <= m

MinPriceOf(prices) == CHOOSE m \in {prices[t] : t \in DOMAIN prices} :
                          \A t \in DOMAIN prices : prices[t] >= m

\* a wrong variant: the average without the guard for an empty dict (ZeroDivisionError)
AiAverageUnguarded(prices) ==
    IF DOMAIN prices = {}
    THEN [raised |-> TRUE, num |-> 0, den |-> 1]
    ELSE [raised |-> FALSE, num |-> SumPrices(prices, DOMAIN prices),
          den |-> Cardinality(DOMAIN prices)]

\* avg_price = sum(values) / len(ai_predictions) if ai_predictions else 50,
\* kept as the fraction num / den
AiAverage(prices) ==
    IF DOMAIN prices = {}
    THEN [raised |-> FALSE, num |-> 50, den |-> 1]
    ELSE [raised |-> FALSE, num |-> SumPrices(prices, DOMAIN prices),
          den |-> Cardinality(DOMAIN prices)]

\* sentiment_score = (avg_price - 55) / 55 compared with a bound in thousandths:
\* (num/den - 55)/55 > bound/1000
AiSentimentAbove(avg, bound) == 1000 * (avg.num - 55 * avg.den) > 55 * avg.den * bound

\* abs(sentiment_score) > 0.2
AiStrongMove(avg) == 1000 * Abs(avg.num - 55 * avg.den) > 55 * avg.den * 200

\* confidence from the spread of the prices: max(0.3, min(1.0, 1 - spread/100)),
\* or 0.5 with fewer than two prices
AiConfidence(prices) ==
    IF Cardinality(DOMAIN prices) > 1
    THEN Max(300, Min(1000, 1000 - 10 * (MaxPriceOf(prices) - MinPriceOf(prices))))
    ELSE 500

\* a wrong variant: the yolo branch keeps the spread-based confidence
AiAdjustYoloUnsaturated(action_bias, is_bullish, confidence_score, avg, personality) ==
    CASE action_bias = "contrarian" ->
           [is_bullish |-> ~is_bullish, confidence |-> confidence_score]
      [] action_bias = "cautious" ->
           IF confidence_score < personality.confidence_weight
           THEN [is_bullish |-> FALSE, confidence |-> confidence_score \div 2]
           ELSE [is_bullish |-> is_bullish, confidence |-> confidence_score]
      [] action_bias = "momentum" ->
           IF AiStrongMove(avg)
           THEN [is_bullish |-> is_bullish, confidence |-> Amplify(confidence_score)]
           ELSE [is_bullish |-> is_bullish, confidence |-> confidence_score]
      [] action_bias = "yolo" ->
           [is_bullish |-> avg.num > 40 * avg.den, confidence |-> confidence_score]
      [] OTHER -> [is_bullish |-> is_bullish, confidence |-> confidence_score]

\* the first if/elif chain: the personality's change of is_bullish and confidence
AiAdjust(action_bias, is_bullish, confidence_score, avg, personality) ==
    CASE action_bias = "contrarian" ->
           [is_bullish |-> ~is_bullish, confidence |-> confidence_score]
      [] action_bias = "cautious" ->
           IF confidence_score < personality.confidence_weight
           THEN [is_bullish |-> FALSE, confidence |-> confidence_score \div 2]
           ELSE [is_bullish |-> is_bullish, confidence |-> confidence_score]
      [] action_bias = "momentum" ->
           IF AiStrongMove(avg)
           THEN [is_bullish |-> is_bullish, confidence |-> Amplify(confidence_score)]
           ELSE [is_bullish |-> is_bullish, confidence |-> confidence_score]
      [] action_bias = "yolo" ->
           [is_bullish |-> avg.num > 40 * avg.den, confidence |-> 1000]
      [] OTHER -> [is_bullish |-> is_bullish, confidence |-> confidence_score]

\* a wrong variant: the balanced approach without its look at the confidence
PersonalityActionByDirection(action_bias, is_bullish, confidence_score) ==
    CASE action_bias \in {"aggressive", "yolo", "momentum"} -> DefaultAction(is_bullish)
      [] action_bias \in {"cautious", "conservative"} ->
           IF confidence_score < 500 THEN "sell" ELSE DefaultAction(is_bullish)
      [] action_bias = "contrarian" -> OppositeAction(is_bullish)
      [] OTHER -> DefaultAction(is_bullish)

\* the second if/elif chain: the action (shared, line for line, by
\* allora_predictor.interpret_prediction)
PersonalityAction(action_bias, is_bullish, confidence_score) ==
    CASE action_bias \in {"aggressive", "yolo", "momentum"} -> DefaultAction(is_bullish)
      [] action_bias \in {"cautious", "conservative"} ->
           IF confidence_score < 500 THEN "sell" ELSE DefaultAction(is_bullish)
      [] action_bias = "contrarian" -> OppositeAction(is_bullish)
      [] OTHER -> IF is_bullish /\ confidence_score > 300 THEN "buy" ELSE "sell"

interpret_ai_market_prediction_body(ai_predictions, personality) ==
    IF ~ai_predictions.wellTyped \/ MissingField(personality) THEN Raise
    ELSE LET avg == AiAverage(ai_predictions.prices)
         IN  IF avg.raised THEN Raise
             ELSE LET adj == AiAdjust(personality.action_bias,
                                      AiSentimentAbove(avg, personality.bullish_threshold),
                                      AiConfidence(ai_predictions.prices),
                                      avg, personality)
                  IN  Return(Decision(adj.is_bullish,
                                      PersonalityAction(personality.action_bias,
                                                        adj.is_bullish, adj.confidence),
                                      adj.confidence))

interpret_ai_market_prediction(ai_predictions, personality) ==
    TryExcept(interpret_ai_market_prediction_body(ai_predictions, personality),
              ErrorDefault)

(***************************************************************************)
(* allora_predictor.interpret_prediction.  The prediction data are a       *)
(* record [wellTyped, combined_value, upper, lower], in thousandths.       *)
(***************************************************************************)
\* confidence_score = max(0, min(1, 1 - (upper - lower) / 0.5))
PredictionConfidence(pd) == Max(0, Min(1000, 1000 - 2 * (pd.upper - pd.lower)))

PredictionAdjust(action_bias, is_bullish, confidence_score, combined_value, personality) ==
    CASE action_bias = "contrarian" ->
           [is_bullish |-> ~is_bullish, confidence |-> confidence_score]
      [] action_bias = "cautious" ->
           IF confidence_score < personality.confidence_weight
           THEN [is_bullish |-> FALSE, confidence |-> confidence_score \div 2]
           ELSE [is_bullish |-> is_bullish, confidence |-> confidence_score]
      [] action_bias = "momentum" ->
           IF Abs(combined_value) > 50
           THEN [is_bullish |-> is_bullish, confidence |-> Amplify(confidence_score)]
           ELSE [is_bullish |-> is_bullish, confidence |-> confidence_score]
      [] action_bias = "yolo" ->
           [is_bullish |-> combined_value > -20, confidence |-> 1000]
      [] OTHER -> [is_bullish |-> is_bullish, confidence |-> confidence_score]

interpret_prediction_body(prediction_data, personality) ==
    IF ~prediction_data.wellTyped \/ MissingField(personality) THEN Raise
    ELSE LET adj == PredictionAdjust(personality.action_bias,
                        prediction_data.combined_value > personality.bullish_threshold,
                        PredictionConfidence(prediction_data),
                        prediction_data.combined_value, personality)
         IN  Return(Decision(adj.is_bullish,
                             PersonalityAction(personality.action_bias,
                                               adj.is_bullish, adj.confidence),
                             adj.confidence))

interpret_prediction(prediction_data, personality) ==
    TryExcept(interpret_prediction_body(prediction_data, personality), ErrorDefault)

(***************************************************************************)
(* Inputs of the interpreters.                                             *)
(***************************************************************************)
WellTypedVirtualPrices == {[wellTyped |-> TRUE, price2 |-> p] : p \in 0..MaxPrice2}

MalformedVirtualPrice == [wellTyped |-> FALSE, price2 |-> 0]

VirtualPrices == WellTypedVirtualPrices \cup {MalformedVirtualPrice}

TokenPrices == {10, 52, 100}

WellTypedAiPredictions ==
    {[wellTyped |-> TRUE, prices |-> f] :
        f \in UNION {[S -> TokenPrices] : S \in SUBSET AI_TOKEN_TOPICS}}

EmptyAiPredictions == [wellTyped |-> TRUE, prices |-> << >>]

MalformedAiPredictions == [wellTyped |-> FALSE, prices |-> << >>]

AiPredictionSets == WellTypedAiPredictions \cup {MalformedAiPredictions}

CombinedValues == {-60, -20, -15, 0, 20, 60}

ConfidenceIntervals == {<<100, -100>>, <<10, -10>>, <<300, -200>>}

WellTypedPredictionData ==
    {[wellTyped |-> TRUE, combined_value |-> cv, upper |-> ci[1], lower |-> ci[2]] :
        cv \in CombinedValues, ci \in ConfidenceIntervals}

MalformedPredictionData ==
    [wellTyped |-> FALSE, combined_value |-> 0, upper |-> 0, lower |-> 0]

PredictionDataSets == WellTypedPredictionData \cup {MalformedPredictionData}

\* a call of one of the interpreters: its inputs, and its outcome once it returned
Call(op, personality, vp, ai, pd) ==
    [op |-> op, personality |-> personality, virtual_price |-> vp,
     ai_predictions |-> ai, prediction_data |-> pd,
     done |-> FALSE, outcome |-> Return(NoDecision)]

NoCall == [Call("none", NoPersonality, MalformedVirtualPrice, MalformedAiPredictions,
                MalformedPredictionData) EXCEPT !.done = TRUE]

VirtualCalls(prices) ==
    {Call("interpret_virtual_price", InvisibleCitiesCatalog[i], vp,
          MalformedAiPredictions, MalformedPredictionData) :
        i \in DOMAIN InvisibleCitiesCatalog, vp \in prices}

AiCalls(sets) ==
    {Call("interpret_ai_market_prediction", TraderPersonalitiesCatalog[i],
          MalformedVirtualPrice, ai, MalformedPredictionData) :
        i \in DOMAIN TraderPersonalitiesCatalog, ai \in sets}

PredictionCalls(sets) ==
    {Call("interpret_prediction", PredictorPersonalitiesCatalog[i],
          MalformedVirtualPrice, MalformedAiPredictions, pd) :
        i \in DOMAIN PredictorPersonalitiesCatalog, pd \in sets}

\* what the registry has returned for an identity so far, per catalog: the first
\* and the latest result, and whether it was asked more than once
NotAssigned == [city_first |-> NoPersonality, city_last |-> NoPersonality,
                city_repeated |-> FALSE,
                trader_first |-> NoPersonality, trader_last |-> NoPersonality,
                trader_repeated |-> FALSE]

(***************************************************************************)
(* A TraderAgent after __init__, and the ledger before it sent anything.   *)
(***************************************************************************)
\* self.nonce = None
NoNonce == -1

InitTraderAgent ==
    /\ nonce = NoNonce
    /\ funded = FALSE
    /\ txcount = 0
    /\ pending = {}
    /\ pc = "new"
    /\ sends = << >>

(***************************************************************************)
(* Nothing of the orchestrator outside trading_loop is under way.          *)
(***************************************************************************)
InitSwarmIdle ==
    /\ check = [path |-> "none"]
    /\ main = [pc |-> "idle"]
    /\ tried = [op |-> "none"]
    /\ fetch = [op |-> "none"]

(***************************************************************************)
(* trading_loop on entry: nothing counted, nothing attempted.  The market  *)
(* is as the chain has it: its deadline passed or not, open or not.        *)
(***************************************************************************)
TradingLoopEntry(traders, focus, late, market_status) ==
    /\ lpc = "deposits"
    /\ num_traders = traders
    /\ num_focus = focus
    /\ focus_index = 0
    /\ total_trades = 0
    /\ failed_trades = 0
    /\ consecutive_failures = 0
    /\ deadline_passed = late
    /\ status = market_status
    /\ graduate_calls = 0
    /\ launches = 0
    /\ attempts = 0
    /\ attempt_failed = FALSE
    /\ streak = 0
    /\ traded = FALSE
    /\ late_start = late
    /\ accepted = "unread"

(***************************************************************************)
(* The decision engine: a call is drawn, then the interpreter is applied.  *)
(***************************************************************************)
InitCatalogs ==
    /\ INVISIBLE_CITIES = InvisibleCitiesCatalog
    /\ TRADER_PERSONALITIES = TraderPersonalitiesCatalog
    /\ PREDICTOR_PERSONALITIES = PredictorPersonalitiesCatalog

InitDecide ==
    /\ InitCatalogs
    /\ assigned = [a \in Identities |-> NotAssigned]
    /\ call \in VirtualCalls(VirtualPrices) \cup AiCalls(AiPredictionSets)
                    \cup PredictionCalls(PredictionDataSets)
    /\ InitTraderAgent
    /\ InitSwarmIdle
    /\ TradingLoopEntry(1, 1, FALSE, 0)

ApplyVirtual ==
    /\ call.op = "interpret_virtual_price" /\ ~call.done
    /\ call' = [call EXCEPT !.done = TRUE,
                  !.outcome = interpret_virtual_price(call.virtual_price, call.personality)]
    /\ UNCHANGED <<INVISIBLE_CITIES, TRADER_PERSONALITIES, PREDICTOR_PERSONALITIES,
                   assigned>>
    /\ UNCHANGED agentVars

ApplyAi ==
    /\ call.op = "interpret_ai_market_prediction" /\ ~call.done
    /\ call' = [call EXCEPT !.done = TRUE,
                  !.outcome = interpret_ai_market_prediction(call.ai_predictions,
                                                             call.personality)]
    /\ UNCHANGED <<INVISIBLE_CITIES, TRADER_PERSONALITIES, PREDICTOR_PERSONALITIES,
                   assigned>>
    /\ UNCHANGED agentVars

ApplyPrediction ==
    /\ call.op = "interpret_prediction" /\ ~call.done
    /\ call' = [call EXCEPT !.done = TRUE,
                  !.outcome = interpret_prediction(call.prediction_data, call.personality)]
    /\ UNCHANGED <<INVISIBLE_CITIES, TRADER_PERSONALITIES, PREDICTOR_PERSONALITIES,
                   assigned>>
    /\ UNCHANGED agentVars

NextDecide == ApplyVirtual \/ ApplyAi \/ ApplyPrediction

SpecDecide == InitDecide /\ [][NextDecide]_vars

(***************************************************************************)
(* The personality registry among the other operations: assignments of     *)
(* either catalog interleaved with interpreter calls.                      *)
(***************************************************************************)
SampleVirtualPrices == {[wellTyped |-> TRUE, price2 |-> p] : p \in {16, 50}}

SampleAiPredictions ==
    {EmptyAiPredictions,
     [wellTyped |-> TRUE, prices |-> [t \in AI_TOKEN_TOPICS |-> 52]]}

SamplePredictionData ==
    {[wellTyped |-> TRUE, combined_value |-> 60, upper |-> 100, lower |-> -100]}

InitAssign ==
    /\ InitCatalogs
    /\ assigned = [a \in Identities |-> NotAssigned]
    /\ call = NoCall
    /\ InitTraderAgent
    /\ InitSwarmIdle
    /\ TradingLoopEntry(1, 1, FALSE, 0)

\* allora_game_agent.get_trader_personality(a)
AssignCity(a) ==
    LET p == get_trader_personality_city(a)
        was == assigned[a]
    IN  /\ assigned' = [assigned EXCEPT ![a] =
               [was EXCEPT !.city_first = IF was.city_first = NoPersonality
                                          THEN p ELSE was.city_first,
                           !.city_last = p,
                           !.city_repeated = was.city_first # NoPersonality]]
        /\ UNCHANGED <<INVISIBLE_CITIES, TRADER_PERSONALITIES, PREDICTOR_PERSONALITIES,
                       call>>
        /\ UNCHANGED agentVars

\* allora_personalities.get_trader_personality(a)
AssignTrader(a) ==
    LET p == get_trader_personality(a)
        was == assigned[a]
    IN  /\ assigned' = [assigned EXCEPT ![a] =
               [was EXCEPT !.trader_first = IF was.trader_first = NoPersonality
                                            THEN p ELSE was.trader_first,
                           !.trader_last = p,
                           !.trader_repeated = was.trader_first # NoPersonality]]
        /\ UNCHANGED <<INVISIBLE_CITIES, TRADER_PERSONALITIES, PREDICTOR_PERSONALITIES,
                       call>>
        /\ UNCHANGED agentVars

\* an interpreter call on a personality of the current catalog
InterpretVirtual ==
    \E i \in DOMAIN INVISIBLE_CITIES, vp \in SampleVirtualPrices :
        /\ call' = [Call("interpret_virtual_price", INVISIBLE_CITIES[i], vp,
                         MalformedAiPredictions, MalformedPredictionData)
                      EXCEPT !.done = TRUE,
                             !.outcome = interpret_virtual_price(vp, INVISIBLE_CITIES[i])]
        /\ UNCHANGED <<INVISIBLE_CITIES, TRADER_PERSONALITIES, PREDICTOR_PERSONALITIES,
                       assigned>>
        /\ UNCHANGED agentVars

InterpretAi ==
    \E i \in DOMAIN TRADER_PERSONALITIES, ai \in SampleAiPredictions :
        /\ call' = [Call("interpret_ai_market_prediction", TRADER_PERSONALITIES[i],
                         MalformedVirtualPrice, ai, MalformedPredictionData)
                      EXCEPT !.done = TRUE,
                             !.outcome = interpret_ai_market_prediction(
                                             ai, TRADER_PERSONALITIES[i])]
        /\ UNCHANGED <<INVISIBLE_CITIES, TRADER_PERSONALITIES, PREDICTOR_PERSONALITIES,
                       assigned>>
        /\ UNCHANGED agentVars

InterpretPrediction ==
    \E i \in DOMAIN PREDICTOR_PERSONALITIES, pd \in SamplePredictionData :
        /\ call' = [Call("interpret_prediction", PREDICTOR_PERSONALITIES[i],
                         MalformedVirtualPrice, MalformedAiPredictions, pd)
                      EXCEPT !.done = TRUE,
                             !.outcome = interpret_prediction(
                                             pd, PREDICTOR_PERSONALITIES[i])]
        /\ UNCHANGED <<INVISIBLE_CITIES, TRADER_PERSONALITIES, PREDICTOR_PERSONALITIES,
                       assigned>>
        /\ UNCHANGED agentVars

NextAssign ==
    \/ \E a \in Identities : AssignCity(a)
    \/ \E a \in Identities : AssignTrader(a)
    \/ InterpretVirtual
    \/ InterpretAi
    \/ InterpretPrediction

SpecAssign == InitAssign /\ [][NextAssign]_vars

SentimentExceedsThreshold ==
    \/ /\ call.op = "interpret_virtual_price" /\ call.virtual_price.wellTyped
       /\ (call.virtual_price.price2 - 40) * 25 > call.personality.bullish_threshold
    \/ /\ call.op = "interpret_prediction" /\ call.prediction_data.wellTyped
       /\ call.prediction_data.combined_value > call.personality.bullish_threshold

(***************************************************************************)
(* C3: for a contrarian personality and an input whose sentiment exceeds   *)
(* the bullish_threshold, the decision is is_bullish = false and           *)
(* action = sell.                                                          *)
(***************************************************************************)
C3_ContrarianBearishSell ==
    (call.done /\ call.personality.action_bias = "contrarian"
        /\ SentimentExceedsThreshold) =>
        /\ call.outcome.value.is_bullish = FALSE
        /\ call.outcome.value.action = "sell"

(***************************************************************************)
(* C4: for a yolo personality the confidence is exactly 1.0 on every       *)
(* well-typed prediction set, whatever the number of assets and the spread *)
(* of the prices, and the action is buy iff is_bullish.                    *)
(***************************************************************************)
C4_YoloSaturation ==
    (/\ call.done /\ call.personality.action_bias = "yolo"
     /\ \/ call.op = "interpret_ai_market_prediction" /\ call.ai_predictions.wellTyped
        \/ call.op = "interpret_prediction" /\ call.prediction_data.wellTyped) =>
        /\ ~call.outcome.raised
        /\ call.outcome.value.confidence = 1000
        /\ call.outcome.value.action =
             (IF call.outcome.value.is_bullish THEN "buy" ELSE "sell")

\* a yolo call on three assets priced 10, 10 and 100 (spread 90, average 40):
\* bearish, sell, and still confidence 1.0
C4_Witness ==
    /\ call.done /\ call.op = "interpret_ai_market_prediction"
    /\ call.personality.action_bias = "yolo"
    /\ call.ai_predictions.wellTyped
    /\ Cardinality(DOMAIN call.ai_predictions.prices) = 3
    /\ MaxPriceOf(call.ai_predictions.prices) - MinPriceOf(call.ai_predictions.prices) = 90
    /\ call.outcome = Return(Decision(FALSE, "sell", 1000))

(***************************************************************************)
(* C5: for a momentum personality interpret_virtual_price returns          *)
(* is_bullish = (sentiment > bullish_threshold), action buy iff            *)
(* is_bullish, and confidence min(1.0, 1.5 * base) when |sentiment| > 0.2  *)
(* and base otherwise, with sentiment = (price - 20)/20 and                *)
(* base = min(1.0, 2*|sentiment| + 0.3); price 25 with threshold -0.05     *)
(* gives (true, buy, 1.0).                                                 *)
(***************************************************************************)
C5_MomentumFormula ==
    (call.done /\ call.op = "interpret_virtual_price" /\ call.virtual_price.wellTyped
        /\ call.personality.action_bias = "momentum") =>
        LET sentiment == (call.virtual_price.price2 - 40) * 25
            magnitude == IF sentiment < 0 THEN -sentiment ELSE sentiment
            base == IF 2 * magnitude + 300 > 1000 THEN 1000 ELSE 2 * magnitude + 300
            \* 1.5 * base compared with 1.0 on doubled values
            amplified == IF 3 * base > 2000 THEN 1000 ELSE (3 * base) \div 2
            bullish == sentiment > call.personality.bullish_threshold
        IN  /\ ~call.outcome.raised
            /\ call.outcome.value.is_bullish = bullish
            /\ call.outcome.value.action = (IF bullish THEN "buy" ELSE "sell")
            /\ call.outcome.value.confidence =
                 (IF magnitude > 200 THEN amplified ELSE base)
            /\ (call.virtual_price.price2 = 50
                  /\ call.personality.bullish_threshold = -50) =>
                 call.outcome.value = Decision(TRUE, "buy", 1000)

\* the scenario: price 25 for the momentum city with threshold -0.05
C5_Witness ==
    /\ call.done /\ call.op = "interpret_virtual_price"
    /\ call.personality.name = "Chloe" /\ call.personality.action_bias = "momentum"
    /\ call.personality.bullish_threshold = -50
    /\ call.virtual_price.wellTyped /\ call.virtual_price.price2 = 50
    /\ call.outcome = Return(Decision(TRUE, "buy", 1000))

MaxNonce == 4

\* get_nonce(): the tracked nonce, fetched from the ledger when None
get_nonce == IF nonce = NoNonce THEN txcount ELSE nonce

\* the ledger's answers to send_raw_transaction(tx with nonce n), followed by
\* wait_for_transaction_receipt when waits: the node rejects the transaction
\* (the send raises; a nonce below the account's or one already pending is
\* always rejected), or accepts it and it is mined during the wait together
\* with the pending transactions below it, or accepts it and it stays pending
\* (no wait, or the wait times out and raises)
Submit(n, waits) ==
    {[raised |-> TRUE, txcount |-> txcount, pending |-> pending]}
    \cup (IF n >= txcount /\ n \notin pending
          THEN {[raised |-> waits, txcount |-> txcount, pending |-> pending \cup {n}]}
          ELSE {})
    \cup (IF waits /\ n >= txcount /\ n \notin pending
             /\ \A m \in txcount .. (n - 1) : m \in pending
          THEN {[raised |-> FALSE, txcount |-> n + 1,
                 pending |-> {m \in pending : m > n}]}
          ELSE {})

\* the record of a send: the nonce it used, the ledger's nonce for the agent
\* when it was sent, and whether it succeeded (nothing raised)
Sent(used, ok) == [used |-> used, ledger |-> txcount, ok |-> ok]

Remember(s) == IF Len(sends) < 2 THEN Append(sends, s) ELSE <<sends[2], s>>

\* one send of an operation: resets says whether the send sits in a try block
\* whose handler calls reset_nonce(); done and failed are the positions after
\* a success and after a raise
SendStep(waits, resets, done, failed) ==
    LET n == get_nonce
    IN  /\ n < MaxNonce
        /\ \E r \in Submit(n, waits) :
             /\ txcount' = r.txcount
             /\ pending' = r.pending
             /\ sends' = Remember(Sent(n, ~r.raised))
             /\ nonce' = IF ~r.raised THEN n + 1            \* increment_nonce()
                         ELSE IF resets THEN r.txcount      \* reset_nonce()
                         ELSE n
             /\ pc' = IF r.raised THEN failed ELSE done
        /\ UNCHANGED <<decideVars, swarmVars, loopVars, funded>>

\* initialize(): get_faucet_tokens() takes its nonce from the ledger and leaves
\* self.nonce alone; a raise ends the run (initialize_agents re-raises)
Initialize ==
    /\ pc = "new" /\ ~funded
    /\ \E r \in Submit(txcount, TRUE) :
         /\ txcount' = r.txcount
         /\ pending' = r.pending
         /\ sends' = Remember(Sent(txcount, ~r.raised))
         /\ funded' = ~r.raised
         /\ pc' = IF r.raised THEN "aborted" ELSE "idle"
    /\ UNCHANGED <<decideVars, swarmVars, loopVars, nonce>>

\* deposit_to_market: the approve is sent without a wait, then the deposit
DepositApprove == pc = "idle" /\ SendStep(FALSE, TRUE, "deposit", "idle")

DepositSend == pc = "deposit" /\ SendStep(TRUE, TRUE, "idle", "idle")

\* claim_vusd: send, wait, increment; no handler
ClaimVusd == pc = "idle" /\ SendStep(TRUE, FALSE, "idle", "idle")

\* approve_token_to_permit2: send, wait, increment; no handler
ApproveTokenToPermit2 == pc = "idle" /\ SendStep(TRUE, FALSE, "idle", "idle")

\* the inline vUSD approve of trade(): send without a wait, increment; no handler
TradeApprove == pc = "idle" /\ SendStep(FALSE, FALSE, "idle", "idle")

\* mint_yes_no: send, wait, increment; no handler
MintYesNo == pc = "idle" /\ SendStep(TRUE, FALSE, "idle", "idle")

\* execute_swap: the approve (waited for), then the swap, in one try block
SwapApprove ==
    /\ pc = "idle"
    /\ \/ SendStep(TRUE, TRUE, "swap", "idle")
       \/ SendStep(TRUE, TRUE, "idle", "idle")   \* receipt status != 1: return None

SwapSend == pc = "swap" /\ SendStep(TRUE, TRUE, "idle", "idle")

\* graduate_market: send, wait, increment; the handler resets and re-raises
GraduateSend == pc = "idle" /\ SendStep(TRUE, TRUE, "idle", "idle")

\* the ledger mines the agent's next pending transaction
Mine ==
    /\ txcount \in pending
    /\ txcount' = txcount + 1
    /\ pending' = pending \ {txcount}
    /\ UNCHANGED <<decideVars, swarmVars, loopVars, nonce, funded, pc, sends>>

InitNonce ==
    /\ InitCatalogs
    /\ assigned = [a \in Identities |-> NotAssigned]
    /\ call = NoCall
    /\ InitTraderAgent
    /\ InitSwarmIdle
    /\ TradingLoopEntry(1, 1, FALSE, 0)

NextNonce ==
    \/ Initialize
    \/ DepositApprove
    \/ DepositSend
    \/ ClaimVusd
    \/ ApproveTokenToPermit2
    \/ TradeApprove
    \/ MintYesNo
    \/ SwapApprove
    \/ SwapSend
    \/ GraduateSend
    \/ Mine

SpecNonce == InitNonce /\ [][NextNonce]_vars

(***************************************************************************)
(* C7: the nonces used by consecutive successful sends of an agent go up   *)
(* by exactly one, and after a send that failed the nonce used by the      *)
(* agent's next send is the ledger's current nonce for the agent.          *)
(***************************************************************************)
C7_NonceSequenceAndResync ==
    Len(sends) = 2 =>
        /\ (sends[1].ok /\ sends[2].ok) => sends[2].used = sends[1].used + 1
        /\ ~sends[1].ok => sends[2].used = sends[2].ledger

(***************************************************************************)
(* start_swarm.trading_loop.  Which trader and which proposal an attempt   *)
(* picks does not matter to the counters, so an attempt is known by its    *)
(* outcome only.  The chain reads (markets, marketMax, acceptedProposals)  *)
(* are calls that may raise.                                               *)
(***************************************************************************)
\* the largest total_trades the model lets the loop reach
MaxTrades == 22

\* a wrong variant: the market is taken for open as long as its status is 0
check_market_status_by_status(market_status, late) == market_status = 0

\* TraderAgent.check_market_status
check_market_status(market_status, late) ==
    IF late /\ market_status = 0 THEN FALSE ELSE market_status = 0

\* the outcomes of traders[0].check_winning_proposal(market_id)
WinningProposals == {"raises", "none", "some"}

\* the outcomes of traders[0].graduate_market(market_id)
GraduateOutcomes == {"graduated", "deadline not yet reached", "already graduated"}

\* what a graduate_market call with this outcome leaves in the market's status
StatusAfter(outcome) == IF outcome = "graduated" THEN 1 ELSE status

\* a wrong variant: the token is launched whatever id was read
DeadlineGraduationLaunchesAlways(outcome, winning) ==
    [reads_winning |-> TRUE,
     launch |-> winning # "raises",
     lpc |-> IF winning = "raises" THEN "crashed" ELSE "ended"]

\* a wrong variant: a graduation that failed with "deadline not yet reached"
\* goes back to the loop
DeadlineGraduationRetries(outcome, winning) ==
    IF outcome = "deadline not yet reached"
    THEN [reads_winning |-> FALSE, launch |-> FALSE, lpc |-> "loop"]
    ELSE [reads_winning |-> TRUE,
          launch |-> winning = "some",
          lpc |-> IF winning = "raises" THEN "crashed" ELSE "ended"]

\* a wrong variant: the loop goes on after a graduation that succeeded
DeadlineGraduationGoesOn(outcome, winning) ==
    [reads_winning |-> TRUE,
     launch |-> winning = "some",
     lpc |-> IF winning = "raises" THEN "crashed"
             ELSE IF outcome = "graduated" THEN "loop" ELSE "ended"]

\* lines 303-335, the deadline path after graduate_market returned or raised:
\* every failure is printed only, then the accepted proposal is read (a raise
\* of that read is not caught) and the token launched when its id is > 0
DeadlineGraduation(outcome, winning) ==
    [reads_winning |-> TRUE,
     launch |-> winning = "some",
     lpc |-> IF winning = "raises" THEN "crashed" ELSE "ended"]

\* a wrong variant: every failed graduation goes back to the loop
ExhaustionGraduationRetriesAll(outcome, winning) ==
    IF outcome = "graduated"
    THEN [reads_winning |-> TRUE, launch |-> winning = "some", lpc |-> "ended"]
    ELSE [reads_winning |-> FALSE, launch |-> FALSE, lpc |-> "loop"]

\* lines 383-411, the exhaustion path: the read and the launch sit in the try
\* block after graduate_market, so they run only when it returned; the handler
\* waits and goes on with the loop on "deadline not yet reached" and breaks on
\* anything else
ExhaustionGraduation(outcome, winning) ==
    IF outcome = "graduated"
    THEN [reads_winning |-> TRUE, launch |-> winning = "some", lpc |-> "ended"]
    ELSE [reads_winning |-> FALSE, launch |-> FALSE,
          lpc |-> IF outcome = "deadline not yet reached" THEN "loop" ELSE "ended"]

\* line 363: consecutive_failures > 20 or (total_trades > 100 and
\* failed_trades > total_trades * 0.5)
Exhausted(consecutive, total, failures) ==
    \/ consecutive > 20
    \/ (total > 100 /\ 2 * failures > total)

\* line 379: consecutive_failures > 20 or readable_balance < 100
GraduatesOnExhaustion(consecutive, balance_low) == consecutive > 20 \/ balance_low

\* lines 166-180: the deposits, in batches; a failing batch is printed only
Deposits ==
    /\ lpc = "deposits"
    /\ lpc' = "initial"
    /\ UNCHANGED <<decideVars, swarmVars, nonceVars, num_traders, num_focus, focus_index,
                   total_trades, failed_trades, consecutive_failures,
                   deadline_passed, status, graduate_calls, launches, attempts,
                   attempt_failed, streak, traded, late_start, accepted>>

\* the for loops over focus_proposals move on, and end in the next position
NextFocus(after) ==
    IF focus_index + 1 < num_focus
    THEN focus_index' = focus_index + 1 /\ lpc' = lpc
    ELSE focus_index' = 0 /\ lpc' = after

\* lines 194-224: traders[0] claims and buys for one focus proposal; execute_swap
\* returns None when it fails, so only get_proposal_data and claim_vusd raise
InitialTrade ==
    /\ lpc = "initial"
    /\ \E outcome \in {"no data", "raised", "completed"} :
         /\ total_trades' = IF outcome = "completed" THEN total_trades + 1
                            ELSE total_trades
         /\ traded' = (traded \/ outcome # "no data")
    /\ NextFocus("followup")
    /\ UNCHANGED <<decideVars, swarmVars, nonceVars, num_traders, num_focus, failed_trades,
                   consecutive_failures, deadline_passed, status, graduate_calls,
                   launches, attempts, attempt_failed, streak, late_start, accepted>>

\* lines 229-286: traders[i] claims, approves, mints and buys
FollowUpTrade ==
    /\ lpc = "followup"
    /\ IF num_traders > focus_index
       THEN \E outcome \in {"no data", "raised", "completed"} :
              /\ total_trades' = IF outcome = "completed" THEN total_trades + 1
                                 ELSE total_trades
              /\ traded' = (traded \/ outcome # "no data")
       ELSE UNCHANGED <<total_trades, traded>>
    /\ NextFocus("twap")
    /\ UNCHANGED <<decideVars, swarmVars, nonceVars, num_traders, num_focus, failed_trades,
                   consecutive_failures, deadline_passed, status, graduate_calls,
                   launches, attempts, attempt_failed, streak, late_start, accepted>>

\* line 289: check_market_max outside any try block
TwapCheck ==
    /\ lpc = "twap"
    /\ \E raised \in BOOLEAN : lpc' = IF raised THEN "crashed" ELSE "loop"
    /\ UNCHANGED <<decideVars, swarmVars, nonceVars, num_traders, num_focus, focus_index,
                   total_trades, failed_trades, consecutive_failures,
                   deadline_passed, status, graduate_calls, launches, attempts,
                   attempt_failed, streak, traded, late_start, accepted>>

\* line 299: the markets(...) call of check_market_status raises
StatusCheckRaises ==
    /\ lpc = "loop"
    /\ lpc' = "crashed"
    /\ UNCHANGED <<decideVars, swarmVars, nonceVars, num_traders, num_focus, focus_index,
                   total_trades, failed_trades, consecutive_failures,
                   deadline_passed, status, graduate_calls, launches, attempts,
                   attempt_failed, streak, traded, late_start, accepted>>

\* lines 299-335: the market is not open any more: graduate (a failure is
\* printed only), read the winning proposal, launch the token, leave the loop
GraduateOnClose ==
    /\ lpc = "loop"
    /\ ~check_market_status(status, deadline_passed)
    /\ graduate_calls' = graduate_calls + 1
    /\ \E outcome \in GraduateOutcomes, winning \in WinningProposals :
         /\ outcome = "graduated" => status = 0
         /\ status' = StatusAfter(outcome)
         /\ lpc' = DeadlineGraduation(outcome, winning).lpc
         /\ launches' = IF DeadlineGraduation(outcome, winning).launch
                        THEN launches + 1 ELSE launches
         /\ accepted' = IF DeadlineGraduation(outcome, winning).reads_winning
                        THEN winning ELSE accepted
    /\ UNCHANGED <<decideVars, swarmVars, nonceVars, num_traders, num_focus, focus_index,
                   total_trades, failed_trades, consecutive_failures,
                   deadline_passed, attempts, attempt_failed, streak, traded,
                   late_start>>

\* whether "await trader.trade(...)" raises into the loop when something inside
\* the attempt failed: trade() wraps its whole body in try/except Exception and
\* only prints, so it never does
trade_raises(failed) == FALSE

\* lines 337-414: one iteration on an open market: the attempt, the counters,
\* the marketMax check every 10 trades, then the exhaustion check and, when it
\* fires, the graduation
TradeIteration ==
    /\ lpc = "loop"
    /\ check_market_status(status, deadline_passed)
    /\ total_trades < MaxTrades
    /\ \E failed \in BOOLEAN, max_raises \in BOOLEAN, balance_low \in BOOLEAN,
          outcome \in GraduateOutcomes, winning \in WinningProposals :
         LET raised == trade_raises(failed)
             total == IF raised THEN total_trades ELSE total_trades + 1
             \* the except branch: the attempt raised, or check_market_max did
             excepted == raised \/ (total % 10 = 0 /\ max_raises)
             failures == IF excepted THEN failed_trades + 1 ELSE failed_trades
             consecutive == IF ~excepted THEN 0
                            ELSE IF raised THEN consecutive_failures + 1
                            ELSE 1
             exhausted == Exhausted(consecutive, total, failures)
             graduating == exhausted /\ GraduatesOnExhaustion(consecutive, balance_low)
         IN  /\ total_trades' = total
             /\ failed_trades' = failures
             /\ consecutive_failures' = consecutive
             /\ attempts' = attempts + 1
             /\ attempt_failed' = failed
             /\ streak' = IF failed THEN streak + 1 ELSE 0
             /\ traded' = TRUE
             /\ IF graduating
                THEN /\ graduate_calls' = graduate_calls + 1
                     /\ outcome = "graduated" => status = 0
                     /\ status' = StatusAfter(outcome)
                     /\ lpc' = ExhaustionGraduation(outcome, winning).lpc
                     /\ launches' = IF ExhaustionGraduation(outcome, winning).launch
                                    THEN launches + 1 ELSE launches
                     /\ accepted' = IF ExhaustionGraduation(outcome, winning).reads_winning
                                    THEN winning ELSE accepted
                ELSE UNCHANGED <<graduate_calls, status, lpc, launches, accepted>>
    /\ UNCHANGED <<decideVars, swarmVars, nonceVars, num_traders, num_focus, focus_index,
                   deadline_passed, late_start>>

\* time passes the market's deadline
DeadlinePasses ==
    /\ ~deadline_passed
    /\ lpc \notin {"ended", "crashed"}
    /\ deadline_passed' = TRUE
    /\ UNCHANGED <<decideVars, swarmVars, nonceVars, lpc, num_traders, num_focus, focus_index,
                   total_trades, failed_trades, consecutive_failures, status,
                   graduate_calls, launches, attempts, attempt_failed, streak,
                   traded, late_start, accepted>>

\* the numbers of traders and focus proposals, and the markets, of the runs
TraderCounts == {1, 3}

FocusCounts == 1 .. 3

Init ==
    /\ InitCatalogs
    /\ assigned = [a \in Identities |-> NotAssigned]
    /\ call = NoCall
    /\ InitTraderAgent
    /\ InitSwarmIdle
    /\ \E traders \in TraderCounts, focus \in FocusCounts, late \in BOOLEAN,
          market_status \in {0, 1} :
         TradingLoopEntry(traders, focus, late, market_status)

Next ==
    \/ Deposits
    \/ InitialTrade
    \/ FollowUpTrade
    \/ TwapCheck
    \/ StatusCheckRaises
    \/ GraduateOnClose
    \/ TradeIteration
    \/ DeadlinePasses

Spec == Init /\ [][Next]_vars

(***************************************************************************)
(* C8: in the trading loop a trade attempt that fails adds one to          *)
(* failed_trades and to consecutive_failures and is not counted in         *)
(* total_trades, a successful attempt resets consecutive_failures to 0,    *)
(* and no attempt aborts the loop.                                         *)
(***************************************************************************)
C8_FailedAttemptsCounted ==
    [][attempts' = attempts + 1 =>
          /\ lpc' # "crashed"
          /\ IF attempt_failed'
             THEN /\ failed_trades' = failed_trades + 1
                  /\ consecutive_failures' = consecutive_failures + 1
                  /\ total_trades' = total_trades
             ELSE consecutive_failures' = 0]_vars

C10_GraduateBeforeAnyTrade ==
    /\ [](late_start /\ traded => graduate_calls > 0)
    /\ [][(lpc = "loop" /\ deadline_passed) => attempts' = attempts]_vars

(***************************************************************************)
(* C10 amended: the deposits and the initial and follow-up trades run      *)
(* without a look at the deadline; from then on every iteration of the     *)
(* while loop evaluates the deadline/status check first, and when the      *)
(* deadline has passed the iteration invokes graduate_market and leaves    *)
(* the loop without attempting a trade and without touching the failure    *)
(* counters (unless the status read itself raises, which ends the run).    *)
(***************************************************************************)
C10_DeadlineCheckedFirst ==
    [][(lpc = "loop" /\ deadline_passed) =>
          /\ attempts' = attempts
          /\ total_trades' = total_trades
          /\ failed_trades' = failed_trades
          /\ consecutive_failures' = consecutive_failures
          /\ \/ graduate_calls' = graduate_calls + 1 /\ lpc' \in {"ended", "crashed"}
             \/ graduate_calls' = graduate_calls /\ lpc' = "crashed"]_vars

\* the deadline passed while the loop was trading, and the next iteration
\* graduated the market and left the loop
C10_Witness ==
    /\ lpc = "ended" /\ deadline_passed /\ ~late_start
    /\ attempts > 0 /\ graduate_calls = 1 /\ status = 1

(***************************************************************************)
(* The two termination checks of the while loop as functions of the loop   *)
(* state they find: the deadline check (lines 297-335) and the exhaustion  *)
(* check (lines 363-411).  A loop state is given, then a check is applied. *)
(***************************************************************************)
\* the counters are given at and just over their thresholds
TerminationChecks ==
    [path : {"deadline", "exhaustion"},
     consecutive_failures : {0, 20, 21},
     trades : {[total |-> 100, failed |-> 60], [total |-> 102, failed |-> 51],
               [total |-> 102, failed |-> 52]},
     balance_low : BOOLEAN,
     outcome : GraduateOutcomes,
     winning : WinningProposals,
     done : {FALSE},
     graduate_called : {FALSE},
     reads_winning : {FALSE},
     launched : {FALSE},
     lpc : {"loop"}]

\* lines 297-335: current_time > deadline
ApplyDeadlineCheck ==
    /\ check.path = "deadline"
    /\ ~check.done
    /\ LET r == DeadlineGraduation(check.outcome, check.winning)
       IN  check' = [check EXCEPT !.done = TRUE,
                                  !.graduate_called = TRUE,
                                  !.reads_winning = r.reads_winning,
                                  !.launched = r.launch,
                                  !.lpc = r.lpc]
    /\ UNCHANGED <<decideVars, nonceVars, loopVars, main, tried, fetch>>

\* lines 363-411
ApplyExhaustionCheck ==
    /\ check.path = "exhaustion"
    /\ ~check.done
    /\ LET graduating ==
               /\ Exhausted(check.consecutive_failures, check.trades.total,
                            check.trades.failed)
               /\ GraduatesOnExhaustion(check.consecutive_failures,
                                        check.balance_low)
           r == ExhaustionGraduation(check.outcome, check.winning)
       IN  check' = IF graduating
                    THEN [check EXCEPT !.done = TRUE,
                                       !.graduate_called = TRUE,
                                       !.reads_winning = r.reads_winning,
                                       !.launched = r.launch,
                                       !.lpc = r.lpc]
                    ELSE [check EXCEPT !.done = TRUE]
    /\ UNCHANGED <<decideVars, nonceVars, loopVars, main, tried, fetch>>

InitTermination ==
    /\ InitCatalogs
    /\ assigned = [a \in Identities |-> NotAssigned]
    /\ call = NoCall
    /\ InitTraderAgent
    /\ TradingLoopEntry(1, 1, FALSE, 0)
    /\ check \in TerminationChecks
    /\ main = [pc |-> "idle"]
    /\ tried = [op |-> "none"]
    /\ fetch = [op |-> "none"]

NextTermination == ApplyDeadlineCheck \/ ApplyExhaustionCheck

SpecTermination == InitTermination /\ [][NextTermination]_vars

NUM_PROPOSAL_AGENTS == 3

NUM_TRADERS == 12

PoolSize(pool) == IF pool = "proposal" THEN NUM_PROPOSAL_AGENTS ELSE NUM_TRADERS

\* range(0, len(agents), batch_size) with batch_size = 10
Batches(n) == (n + 9) \div 10

\* a wrong variant: the failure is printed and the loop over the batches goes on
AfterBatchFailureContinues(position) == position

\* initialize_agents when a batch raised: printed, then raise e, which main
\* does not catch
AfterBatchFailure(position) == "aborted"

\* what create_proposal can do: return (receipt, id) with receipt status 1,
\* return None (market not open), or raise
CreateProposalOutcomes(agent) ==
    IF status = 0
    THEN {[kind |-> "returned", receipt_status |-> 1, id |-> agent],
          [kind |-> "raised", receipt_status |-> 0, id |-> 0]}
    ELSE {[kind |-> "none", receipt_status |-> 0, id |-> 0],
          [kind |-> "raised", receipt_status |-> 0, id |-> 0]}

\* a wrong variant: the id is collected twice
AppendProposalTwice(proposal_ids, r) ==
    IF r.kind = "returned" /\ r.receipt_status = 1
    THEN proposal_ids \o <<r.id, r.id>>
    ELSE proposal_ids

\* launch_proposals, one agent (lines 146-155): unpacking None raises inside
\* the try, like a raise of create_proposal; both are printed only
AppendProposal(proposal_ids, r) ==
    IF r.kind = "returned" /\ r.receipt_status = 1
    THEN Append(proposal_ids, r.id)
    ELSE proposal_ids

\* a wrong variant: main goes on whatever launch_proposals returned
AfterLaunchAlways(proposal_ids) == "gas"

\* main, lines 463-465: if not proposal_ids: return
AfterLaunch(proposal_ids) == IF proposal_ids = << >> THEN "returned" ELSE "gas"

\* what master_w3.eth.get_transaction_count(master_account.address) gives when
\* initialize_agents reads it (line 92): some count before the first pool; by
\* the second pool the transfers to the proposal agents are mined, the agents
\* have spent that gas on their proposals
MasterTransactionCounts(pool) ==
    IF pool = "proposal" THEN {0, 5}
    ELSE {NUM_PROPOSAL_AGENTS, 5 + NUM_PROPOSAL_AGENTS}

\* a wrong variant: the offset of the earlier batches is left out
BatchNoncesWithoutOffset(base_nonce, nonce_offset, size) ==
    [j \in 1 .. size |-> base_nonce + (j - 1)]

\* lines 102-108: nonce = base_nonce + nonce_offset + j for the j-th agent of
\* the batch (j from 0), handed to fund_with_gas, which then reads no ledger
BatchNonces(base_nonce, nonce_offset, size) ==
    [j \in 1 .. size |-> base_nonce + nonce_offset + (j - 1)]

\* the locals of initialize_agents before line 92: base_nonce, nonce_offset,
\* the nonces of the transfers of the batches gathered so far (gas_nonces, in
\* agent order) and the number of ledger reads of the call
NoFunding ==
    [base_nonce |-> 0, nonce_offset |-> 0, gas_nonces |-> << >>, ledger_reads |-> 0]

MainEntry(has_key) ==
    [pc |-> "start", has_key |-> has_key, pool |-> "proposal", batch |-> 0,
     failed |-> "none", submitted |-> 0, at_failure |-> 0, attempted |-> 0,
     proposal_ids |-> << >>, succeeded |-> {}, funding |-> NoFunding]

\* lines 441-443: if not MASTER_PRIVATE_KEY: return
MainStart ==
    /\ main.pc = "start"
    /\ main' = [main EXCEPT !.pc = IF main.has_key THEN "gas" ELSE "returned"]
    /\ UNCHANGED <<decideVars, nonceVars, loopVars, check, tried, fetch>>

\* initialize_agents, lines 92-120: base_nonce is read before the first batch;
\* one batch of fund_with_gas is gathered, each transfer with its nonce; when
\* the gather raises base_nonce is read again and the exception goes on (the
\* transfers of that batch are not recorded: any of them may have been sent)
GasBatch ==
    /\ main.pc = "gas"
    /\ \E raises \in BOOLEAN, count \in MasterTransactionCounts(main.pool),
          recount \in MasterTransactionCounts(main.pool) :
         LET f == IF main.batch = 0
                  THEN [NoFunding EXCEPT !.base_nonce = count, !.ledger_reads = 1]
                  ELSE main.funding
             size == Min(10, PoolSize(main.pool) - 10 * main.batch)
             nonces == BatchNonces(f.base_nonce, f.nonce_offset, size)
         IN
         main' = IF raises
                 THEN [main EXCEPT !.pc = AfterBatchFailure(main.pc),
                                   !.failed = main.pool,
                                   !.submitted = main.submitted + 1,
                                   !.at_failure = main.submitted + 1,
                                   !.funding = [f EXCEPT
                                       !.base_nonce = recount,
                                       !.nonce_offset = 0,
                                       !.ledger_reads = f.ledger_reads + 1]]
                 ELSE [main EXCEPT !.submitted = main.submitted + 1,
                                   !.funding = [f EXCEPT
                                       !.nonce_offset = f.nonce_offset + size,
                                       !.gas_nonces = f.gas_nonces \o nonces],
                                   !.batch = IF main.batch + 1 < Batches(PoolSize(main.pool))
                                             THEN main.batch + 1 ELSE 0,
                                   !.pc = IF main.batch + 1 < Batches(PoolSize(main.pool))
                                          THEN "gas" ELSE "faucet"]
    /\ UNCHANGED <<decideVars, nonceVars, loopVars, check, tried, fetch>>

\* initialize_agents, lines 126-134: one batch of agent.initialize() is
\* gathered; after the last one the call returns, its locals are gone, and
\* main goes on (lines 457-461, 493-502)
FaucetBatch ==
    /\ main.pc = "faucet"
    /\ \E raises \in BOOLEAN :
         LET last == main.batch + 1 >= Batches(PoolSize(main.pool))
             entering == ~raises /\ last /\ main.pool = "trader"
         IN  /\ main' = IF raises
                        THEN [main EXCEPT !.pc = AfterBatchFailure(main.pc),
                                          !.failed = main.pool,
                                          !.submitted = main.submitted + 1,
                                          !.at_failure = main.submitted + 1]
                        ELSE [main EXCEPT !.submitted = main.submitted + 1,
                                          !.funding = IF last THEN NoFunding
                                                      ELSE main.funding,
                                          !.batch = IF last THEN 0 ELSE main.batch + 1,
                                          !.pc = IF ~last THEN "faucet"
                                                 ELSE IF main.pool = "proposal"
                                                      THEN "launch" ELSE "entered"]
             /\ IF entering
                THEN \* trading_loop(traders, proposal_ids), lines 160-191
                     /\ lpc' = "deposits"
                     /\ num_traders' = NUM_TRADERS
                     /\ num_focus' = Min(3, Len(main.proposal_ids))
                     /\ late_start' = deadline_passed
                     /\ UNCHANGED <<focus_index, total_trades, failed_trades,
                                    consecutive_failures, deadline_passed, status,
                                    graduate_calls, launches, attempts,
                                    attempt_failed, streak, traded, accepted>>
                ELSE UNCHANGED loopVars
    /\ UNCHANGED <<decideVars, nonceVars, check, tried, fetch>>

\* launch_proposals, lines 145-155: the next agent's create_proposal; after
\* the last agent main looks at the ids (lines 461-465)
CreateProposal ==
    /\ main.pc = "launch"
    /\ LET agent == main.attempted + 1
       IN  \E r \in CreateProposalOutcomes(agent) :
             LET ids == AppendProposal(main.proposal_ids, r)
             IN  main' = [main EXCEPT
                    !.attempted = agent,
                    !.proposal_ids = ids,
                    !.succeeded = IF r.kind = "returned" /\ r.receipt_status = 1
                                  THEN main.succeeded \cup {r.id}
                                  ELSE main.succeeded,
                    !.pool = IF agent = NUM_PROPOSAL_AGENTS THEN "trader"
                             ELSE main.pool,
                    !.pc = IF agent = NUM_PROPOSAL_AGENTS THEN AfterLaunch(ids)
                           ELSE "launch"]
    /\ UNCHANGED <<decideVars, nonceVars, loopVars, check, tried, fetch>>

\* the phase a run is in: 1 while the proposal agents are funded and submit
\* (main, phases 1 and 2), 2 while the traders are funded and trading_loop
\* trades (phases 3 and 4), 3 once main returned or raised or the loop ended
Phase ==
    IF main.pc \in {"returned", "aborted"} \/ lpc \in {"ended", "crashed"}
    THEN 3
    ELSE IF main.pool = "proposal" THEN 1 ELSE 2

InitSwarm ==
    /\ InitCatalogs
    /\ assigned = [a \in Identities |-> NotAssigned]
    /\ call = NoCall
    /\ InitTraderAgent
    /\ check = [path |-> "none"]
    /\ main \in {MainEntry(has_key) : has_key \in BOOLEAN}
    /\ tried = [op |-> "none"]
    /\ fetch = [op |-> "none"]
    /\ lpc = "not entered"
    /\ num_traders = 0
    /\ num_focus = 0
    /\ focus_index = 0
    /\ total_trades = 0
    /\ failed_trades = 0
    /\ consecutive_failures = 0
    /\ deadline_passed \in BOOLEAN
    /\ status \in {0, 1}
    /\ graduate_calls = 0
    /\ launches = 0
    /\ attempts = 0
    /\ attempt_failed = FALSE
    /\ streak = 0
    /\ traded = FALSE
    /\ late_start = FALSE
    /\ accepted = "unread"

NextSwarm ==
    \/ MainStart
    \/ GasBatch
    \/ FaucetBatch
    \/ CreateProposal
    \/ Next

SpecSwarm == InitSwarm /\ [][NextSwarm]_vars

(***************************************************************************)
(* C12: a run goes through its phases in order only: accepting proposals   *)
(* (the proposal agents are funded and submit), trading (the traders are   *)
(* funded and trade), graduating and launching, done.  No phase is entered *)
(* again; graduate_market and the launcher are invoked only on the step    *)
(* that ends the trading phase, and once graduate_market has been invoked  *)
(* no further trade is attempted in that run.  Trades are attempted only   *)
(* after every proposal agent has attempted its submission.                *)
(***************************************************************************)
C12_PhasesInOrder ==
    /\ [][Phase' >= Phase]_vars
    /\ [][(graduate_calls' # graduate_calls \/ launches' # launches) =>
             (Phase = 2 /\ Phase' = 3)]_vars
    /\ [][graduate_calls > 0 =>
             (attempts' = attempts /\ total_trades' = total_trades
                 /\ traded' = traded)]_vars
    /\ [](traded => (main.pc = "entered"
                        /\ main.attempted = NUM_PROPOSAL_AGENTS))

\* a run that went through every phase: proposals, trades in the loop, then
\* the graduation and the launch that ended it
C12_Witness ==
    /\ main.pc = "entered" /\ main.attempted = NUM_PROPOSAL_AGENTS
    /\ lpc = "ended" /\ attempts > 0 /\ graduate_calls = 1 /\ launches = 1

(***************************************************************************)
(* One trade attempt of a trader: what get_trading_decision gives for the  *)
(* trader's personality and the current predictions, and what trade()      *)
(* attempts.                                                               *)
(***************************************************************************)
\* allora_personalities.get_trading_decision, lines 279-335: the interpreter's
\* (is_bullish, action); the rest of the function prints
get_trading_decision(ai_predictions, personality) ==
    LET r == interpret_ai_market_prediction(ai_predictions, personality)
    IN  [is_bullish |-> r.value.is_bullish, action |-> r.value.action]

\* the attempts: a trader of any personality, the predictions as
\* get_ai_token_predictions returns them (a price for each of the four topics)
TradeAttempts ==
    {[op |-> "trade", personality |-> TraderPersonalitiesCatalog[i],
      ai_predictions |-> ai, done |-> FALSE,
      decided |-> [is_bullish |-> FALSE, action |-> "none"],
      is_bullish |-> FALSE, action |-> "none"] :
        i \in DOMAIN TraderPersonalitiesCatalog,
        ai \in {a \in WellTypedAiPredictions : DOMAIN a.prices = AI_TOKEN_TOPICS}}

\* trader_agent.trade, lines 473-475: is_bullish = random.random() > 0.5,
\* action = random.choice(['buy', 'sell'])
Trade ==
    /\ tried.op = "trade" /\ ~tried.done
    /\ \E random_bullish \in BOOLEAN, random_action \in {"buy", "sell"} :
         tried' = [tried EXCEPT
                     !.done = TRUE,
                     !.decided = get_trading_decision(tried.ai_predictions,
                                                      tried.personality),
                     !.is_bullish = random_bullish,
                     !.action = random_action]
    /\ UNCHANGED <<decideVars, nonceVars, loopVars, check, main, fetch>>

InitTrade ==
    /\ InitCatalogs
    /\ assigned = [a \in Identities |-> NotAssigned]
    /\ call = NoCall
    /\ InitTraderAgent
    /\ TradingLoopEntry(1, 1, FALSE, 0)
    /\ check = [path |-> "none"]
    /\ main = [pc |-> "idle"]
    /\ tried \in TradeAttempts
    /\ fetch = [op |-> "none"]

SpecTrade == InitTrade /\ [][Trade]_vars

(***************************************************************************)
(* C13: the buy/sell action and the bullish/bearish side that a trade      *)
(* attempt of the loop goes for are the ones decide computes from the      *)
(* trader's personality and the current predictions.                       *)
(***************************************************************************)
C13_TradesAsDecided ==
    (tried.op = "trade" /\ tried.done)
    => /\ tried.is_bullish = tried.decided.is_bullish
       /\ tried.action = tried.decided.action

(***************************************************************************)
(* C14: when a gas-funding batch or a faucet batch of initialize_agents    *)
(* fails, initialize_agents raises and the run is over: no later batch is  *)
(* submitted, trading_loop is never entered, and when the pool was the     *)
(* proposal agents no proposal is submitted.                               *)
(***************************************************************************)
C14_FundingFailureAborts ==
    (main.pc # "idle" /\ main.failed # "none")
    => /\ main.pc = "aborted"
       /\ main.submitted = main.at_failure
       /\ lpc = "not entered"
       /\ (main.failed = "proposal" =>
              (main.attempted = 0 /\ main.proposal_ids = << >>))

\* the first of the traders' two batches failed, after proposals were created
C14_Witness ==
    /\ main.pc = "aborted" /\ main.failed = "trader" /\ main.batch = 0
    /\ main.succeeded # {}

C16_LaunchOnceAfterGraduation ==
    /\ [](launches <= 1)
    /\ [](launches > 0 => (graduate_calls > 0 /\ accepted = "some"))
    /\ [][launches' # launches =>
             /\ launches' = launches + 1
             /\ graduate_calls' > 0
             /\ accepted' = "some"
             /\ lpc' = "ended"]_vars

\* a run whose graduation was followed by the read of a winning proposal and
\* the launch of its token
C16_Witness ==
    /\ launches = 1 /\ accepted = "some" /\ graduate_calls = 1 /\ lpc = "ended"

(***************************************************************************)
(* The fetches from the oracle: allora_personalities.get_ai_token_         *)
(* predictions (prices in whole dollars) and allora_game_agent.            *)
(* get_virtual_price (price in half dollars).  An oracle call gives a      *)
(* price, raises, or gives something float() does not take.                *)
(***************************************************************************)
\* client.get_inference_by_topic_id(...) and float(...) of its result
TopicInference(o) ==
    IF o.kind = "price" THEN [raised |-> FALSE, value |-> o.price]
    ELSE [raised |-> TRUE, value |-> 0]

\* a wrong variant: the fetch of a topic without its handler
TopicPriceUnguarded(o, name) == TopicInference(o)

\* a wrong variant: one default, 50.0, for every topic
TopicPriceNeutral(o, name) == TryExcept(TopicInference(o), 50)

\* get_ai_token_predictions, lines 151-168: try / except Exception with the
\* defaults 20.0, 52.0, 51.0, 100.0
TopicPrice(o, name) ==
    TryExcept(TopicInference(o),
              CASE name = "Virtual/USDT" -> 20
                [] name = "Aixbt/USDT" -> 52
                [] name = "VaderAI/USDT" -> 51
                [] name = "Sekoia/USDT" -> 100)

\* get_ai_token_predictions: the cached dict unless there is none or a refresh
\* is forced; else a price per topic, which is cached.  calls counts the
\* oracle calls per topic: the for loop makes one for each
get_ai_token_predictions(cache, force_refresh, oracle) ==
    IF cache.set /\ ~force_refresh
    THEN [raised |-> FALSE, value |-> cache.value, cache |-> cache,
          calls |-> [t \in AI_TOKEN_TOPICS |-> 0]]
    ELSE LET per == [t \in AI_TOKEN_TOPICS |-> TopicPrice(oracle[t], t)]
             predictions == [t \in AI_TOKEN_TOPICS |-> per[t].value]
         IN  IF \E t \in AI_TOKEN_TOPICS : per[t].raised
             THEN [raised |-> TRUE, value |-> << >>, cache |-> cache,
                   calls |-> [t \in AI_TOKEN_TOPICS |-> 1]]
             ELSE [raised |-> FALSE, value |-> predictions,
                   cache |-> [set |-> TRUE, value |-> predictions],
                   calls |-> [t \in AI_TOKEN_TOPICS |-> 1]]

\* get_virtual_price: the cached price while it is less than 60 seconds old;
\* else the oracle's price, which is cached; when that fails the cached price
\* if there is one, else 20.0
\* a wrong variant: the cache is not looked at before the oracle is called
get_virtual_price_uncached(cache, age, o) ==
    LET r == TryExcept(TopicInference(o), IF cache.set THEN cache.value ELSE 40)
    IN  [raised |-> r.raised, value |-> r.value,
         cache |-> IF TopicInference(o).raised THEN cache
                   ELSE [set |-> TRUE, value |-> r.value],
         age |-> IF TopicInference(o).raised THEN age ELSE 0,
         calls |-> [t \in {"Virtual/USDT"} |-> 1]]

\* a wrong variant: the except branch caches what it returns, with the time
get_virtual_price_caches_fallback(cache, age, o) ==
    IF cache.set /\ age < 60
    THEN [raised |-> FALSE, value |-> cache.value, cache |-> cache,
          age |-> age,
          calls |-> [t \in {"Virtual/USDT"} |-> 0]]
    ELSE LET r == TryExcept(TopicInference(o),
                            IF cache.set THEN cache.value ELSE 40)
         IN  [raised |-> r.raised, value |-> r.value,
              cache |-> [set |-> TRUE, value |-> r.value],
              age |-> 0,
              calls |-> [t \in {"Virtual/USDT"} |-> 1]]

\* age is current_time - _cache_timestamp, in seconds, before the call in the
\* arguments and after it in the result (0 when _cache_timestamp was set to
\* current_time); calls counts the oracle calls
get_virtual_price(cache, age, o) ==
    IF cache.set /\ age < 60
    THEN [raised |-> FALSE, value |-> cache.value, cache |-> cache,
          age |-> age,
          calls |-> [t \in {"Virtual/USDT"} |-> 0]]
    ELSE LET r == TryExcept(TopicInference(o),
                            IF cache.set THEN cache.value ELSE 40)
         IN  [raised |-> r.raised, value |-> r.value,
              cache |-> IF TopicInference(o).raised THEN cache
                        ELSE [set |-> TRUE, value |-> r.value],
              age |-> IF TopicInference(o).raised THEN age ELSE 0,
              calls |-> [t \in {"Virtual/USDT"} |-> 1]]

FetchAi ==
    /\ fetch.op = "get_ai_token_predictions" /\ ~fetch.done
    /\ fetch' = [fetch EXCEPT
                   !.done = TRUE,
                   !.result = get_ai_token_predictions(fetch.cache, fetch.flag,
                                                       fetch.oracle)]
    /\ UNCHANGED <<decideVars, nonceVars, loopVars, check, main, tried>>

FetchVirtual ==
    /\ fetch.op = "get_virtual_price" /\ ~fetch.done
    /\ fetch' = [fetch EXCEPT
                   !.done = TRUE,
                   !.result = get_virtual_price(fetch.cache, fetch.age,
                                                fetch.oracle)]
    /\ UNCHANGED <<decideVars, nonceVars, loopVars, check, main, tried>>

\* the calls: with and without a cache (as an earlier call left it), every
\* combination of what the oracle does per topic
InitFetch ==
    /\ InitCatalogs
    /\ assigned = [a \in Identities |-> NotAssigned]
    /\ call = NoCall
    /\ InitTraderAgent
    /\ TradingLoopEntry(1, 1, FALSE, 0)
    /\ check = [path |-> "none"]
    /\ main = [pc |-> "idle"]
    /\ tried = [op |-> "none"]
    /\ LET OracleOutcomes == {[kind |-> "price", price |-> 10],
                              [kind |-> "price", price |-> 100],
                              [kind |-> "raises", price |-> 0],
                              [kind |-> "malformed", price |-> 0]}
           NoResult == [raised |-> FALSE, value |-> << >>,
                        cache |-> [set |-> FALSE, value |-> << >>],
                        calls |-> << >>]
       IN  \/ fetch \in [op : {"get_ai_token_predictions"},
                         cache : {[set |-> FALSE, value |-> << >>],
                                  [set |-> TRUE,
                                   value |-> [t \in AI_TOKEN_TOPICS |-> 52]]},
                         flag : BOOLEAN,
                         oracle : [AI_TOKEN_TOPICS -> OracleOutcomes],
                         done : {FALSE},
                         result : {NoResult}]
           \/ fetch \in [op : {"get_virtual_price"},
                         cache : {[set |-> FALSE, value |-> 0],
                                  [set |-> TRUE, value |-> 36]},
                         age : {0, 59, 60, 61},
                         oracle : OracleOutcomes,
                         done : {FALSE},
                         result : {NoResult}]

NextFetch == FetchAi \/ FetchVirtual

SpecFetch == InitFetch /\ [][NextFetch]_vars

(***************************************************************************)
(* C17: a fetch never raises: get_ai_token_predictions returns a price for *)
(* each of the four topics and get_virtual_price returns a price, whatever *)
(* oracle calls fail.                                                      *)
(***************************************************************************)
C17_FetchNeverRaises ==
    (fetch.op # "none" /\ fetch.done)
    => /\ ~fetch.result.raised
       /\ (fetch.op = "get_ai_token_predictions" =>
              /\ DOMAIN fetch.result.value = AI_TOKEN_TOPICS
              /\ \A t \in AI_TOKEN_TOPICS : fetch.result.value[t] \in Nat)
       /\ (fetch.op = "get_virtual_price" => fetch.result.value \in Nat)

\* no cache, every oracle call failed, and the four defaults came back
C17_Witness ==
    /\ fetch.op = "get_ai_token_predictions" /\ fetch.done /\ ~fetch.cache.set
    /\ \A t \in AI_TOKEN_TOPICS : fetch.oracle[t].kind # "price"
    /\ fetch.result.value["Virtual/USDT"] = 20
    /\ fetch.result.value["Sekoia/USDT"] = 100

(***************************************************************************)
(* C18: an agent never has two transactions in flight with the same nonce  *)
(* or with nonces out of order: whenever the agent sends a transaction,    *)
(* its nonce is above the nonce of every transaction of the agent that is  *)
(* still unconfirmed, also after a send failed and the nonce was read from *)
(* the ledger again.                                                       *)
(***************************************************************************)
C18_NoncesAboveInFlight ==
    [][sends' # sends =>
          \A m \in pending : sends'[Len(sends')].used > m]_vars

(***************************************************************************)
(* The interpreters on any input: the calls of SpecDecide, and calls whose *)
(* personality record lacks a field the interpreter reads.                 *)
(***************************************************************************)
InitDecideAny ==
    /\ InitCatalogs
    /\ assigned = [a \in Identities |-> NotAssigned]
    /\ InitTraderAgent
    /\ InitSwarmIdle
    /\ TradingLoopEntry(1, 1, FALSE, 0)
    /\ LET WellFormed == VirtualCalls(VirtualPrices) \cup AiCalls(AiPredictionSets)
                             \cup PredictionCalls(PredictionDataSets)
           Without(q, f) == [g \in DOMAIN q \ {f} |-> q[g]]
       IN  call \in WellFormed
                    \cup {[c EXCEPT !.personality = Without(c.personality, f)] :
                             c \in WellFormed,
                             f \in {"bullish_threshold", "action_bias"}}

SpecDecideAny == InitDecideAny /\ [][NextDecide]_vars

(***************************************************************************)
(* C19: an exception raised while interpreting, by a malformed value or by *)
(* a personality record that lacks a field, does not leave the             *)
(* interpreter: the decision returned is the fixed default                 *)
(* (false, sell, 0.3).                                                     *)
(***************************************************************************)
C19_ErrorGivesDefault ==
    (call.op # "none" /\ call.done)
    => /\ ~call.outcome.raised
       /\ LET value == CASE call.op = "interpret_virtual_price" -> call.virtual_price
                         [] call.op = "interpret_ai_market_prediction" ->
                                call.ai_predictions
                         [] call.op = "interpret_prediction" -> call.prediction_data
          IN  (~value.wellTyped \/ MissingField(call.personality))
                  => call.outcome.value = ErrorDefault

\* a well-typed prediction interpreted with a personality record without its
\* bullish_threshold
C19_Witness ==
    /\ call.op = "interpret_prediction" /\ call.done
    /\ call.prediction_data.wellTyped
    /\ "bullish_threshold" \notin DOMAIN call.personality
    /\ call.outcome = Return(ErrorDefault)

(***************************************************************************)
(* C20: every chain-mutating operation of a trader resynchronises the      *)
(* local nonce from the ledger when its send or its confirmation fails:    *)
(* the step of a failed send leaves the local nonce equal to the ledger's  *)
(* nonce for the agent, and a send that follows a failed one takes the     *)
(* ledger's nonce.                                                         *)
(***************************************************************************)
C20_FailedOperationResyncs ==
    /\ [][(sends' # sends /\ ~sends'[Len(sends')].ok /\ pc' # "aborted")
             => nonce' = txcount']_vars
    /\ [][(sends' # sends /\ Len(sends) > 0 /\ ~sends[Len(sends)].ok)
             => get_nonce = txcount]_vars

C22_RetryOnlyBeforeDeadline ==
    (check.path # "none" /\ check.done /\ check.graduate_called
        /\ check.outcome # "graduated")
    => /\ check.lpc = "loop" => check.outcome = "deadline not yet reached"
       /\ check.outcome # "deadline not yet reached" => check.lpc = "ended"
                                                        \/ check.lpc = "crashed"

C22_Witness ==
    /\ check.path = "exhaustion" /\ check.done /\ check.graduate_called
    /\ check.outcome = "deadline not yet reached"
    /\ check.lpc = "loop"

(***************************************************************************)
(* C23: once a graduate_market call has succeeded (the market's status is  *)
(* 1 after a call), the trading loop makes no further trade attempt and no *)
(* further graduate_market call.                                           *)
(***************************************************************************)
C23_NothingAfterGraduation ==
    [][(graduate_calls > 0 /\ status = 1) =>
          /\ attempts' = attempts
          /\ total_trades' = total_trades
          /\ graduate_calls' = graduate_calls]_vars

C23_Witness ==
    /\ graduate_calls = 1 /\ status = 1 /\ attempts > 0 /\ lpc = "ended"
    /\ ~late_start

(***************************************************************************)
(* The trading loop under the scheduling of the event loop: trading_loop   *)
(* is the only coroutine of the process while it runs, every call it       *)
(* awaits returns or raises, and time goes on, so a step that can be taken *)
(* is taken.                                                               *)
(***************************************************************************)
SpecProgress == Spec /\ WF_vars(Next)

C25_GasNoncesSequential ==
    (main.pc = "faucet" \/ (main.pc = "gas" /\ main.batch > 0))
    => LET f == main.funding
           sent == Len(f.gas_nonces)
       IN  /\ main.pc = "faucet" => sent = PoolSize(main.pool)
           /\ main.pc = "gas" => sent = 10 * main.batch
           /\ \A k \in 1 .. sent : f.gas_nonces[k] = f.base_nonce + (k - 1)
           /\ \A k, l \in 1 .. sent : k # l => f.gas_nonces[k] # f.gas_nonces[l]
           /\ f.base_nonce \in MasterTransactionCounts(main.pool)
           /\ f.ledger_reads = 1

C25_Witness ==
    /\ main.pc = "faucet" /\ main.pool = "trader"
    /\ main.funding.base_nonce = 5 + NUM_PROPOSAL_AGENTS
    /\ Len(main.funding.gas_nonces) = NUM_TRADERS
    /\ main.funding.gas_nonces[NUM_TRADERS] = 5 + NUM_PROPOSAL_AGENTS + NUM_TRADERS - 1
    /\ main.funding.ledger_reads = 1

(***************************************************************************)
(* C26: in launch_proposals create_proposal is invoked once for each       *)
(* proposal agent, in turn; each agent adds at most one id to the          *)
(* collected ids, and there are never more ids than agents.                *)
(***************************************************************************)
C26_OneProposalPerAgent ==
    [][(main.pc = "launch" /\ main' # main) =>
          /\ main'.attempted = main.attempted + 1
          /\ main'.attempted <= NUM_PROPOSAL_AGENTS
          /\ Len(main'.proposal_ids) <= Len(main.proposal_ids) + 1
          /\ Len(main'.proposal_ids) <= main'.attempted
          /\ \A k \in 1 .. Len(main.proposal_ids) :
                main'.proposal_ids[k] = main.proposal_ids[k]
          /\ (main'.pc = "launch") <=> (main'.attempted < NUM_PROPOSAL_AGENTS)]_vars

C26_Witness ==
    /\ main.pc = "gas" /\ main.pool = "trader"
    /\ main.attempted = NUM_PROPOSAL_AGENTS
    /\ Len(main.proposal_ids) = NUM_PROPOSAL_AGENTS - 1

(***************************************************************************)
(* C27: a fetch that finds its cache inside the freshness window returns   *)
(* the cached value and calls no oracle: get_virtual_price when the cached *)
(* price is less than 60 seconds old, get_ai_token_predictions when the    *)
(* cache is populated and no refresh is forced.                            *)
(***************************************************************************)
C27_CacheHitCallsNoOracle ==
    (fetch.op # "none" /\ fetch.done /\ fetch.cache.set
        /\ (fetch.op = "get_virtual_price" => fetch.age < 60)
        /\ (fetch.op = "get_ai_token_predictions" => ~fetch.flag))
    => /\ ~fetch.result.raised
       /\ fetch.result.value = fetch.cache.value
       /\ \A t \in DOMAIN fetch.result.calls : fetch.result.calls[t] = 0
       /\ fetch.result.cache = fetch.cache

\* a price cached 59 seconds ago is returned although the oracle has another
C27_Witness ==
    /\ fetch.op = "get_virtual_price" /\ fetch.done
    /\ fetch.cache.set /\ fetch.age = 59
    /\ fetch.oracle.kind = "price" /\ fetch.oracle.price # fetch.cache.value
    /\ fetch.result.value = 36

(***************************************************************************)
(* C28 as stated: on a cache miss or a forced refresh the oracle is called *)
(* once per asset; for each asset whose call fails the value returned is   *)
(* that asset's hardcoded fallback (20.0, 52.0, 51.0, 100.0; 20.0 is 40    *)
(* half dollars for get_virtual_price), and the cache holds the returned   *)
(* values afterwards.                                                      *)
(***************************************************************************)
C28_FallbackAndCachePopulated ==
    (fetch.op # "none" /\ fetch.done
        /\ (fetch.op = "get_virtual_price" => ~(fetch.cache.set /\ fetch.age < 60))
        /\ (fetch.op = "get_ai_token_predictions" => ~(fetch.cache.set /\ ~fetch.flag)))
    => LET fallback == [t \in AI_TOKEN_TOPICS |->
                           CASE t = "Virtual/USDT" -> 20
                             [] t = "Aixbt/USDT" -> 52
                             [] t = "VaderAI/USDT" -> 51
                             [] t = "Sekoia/USDT" -> 100]
       IN  /\ \A t \in DOMAIN fetch.result.calls : fetch.result.calls[t] = 1
           /\ fetch.result.cache = [set |-> TRUE, value |-> fetch.result.value]
           /\ fetch.op = "get_ai_token_predictions" =>
                 /\ DOMAIN fetch.result.calls = AI_TOKEN_TOPICS
                 /\ \A t \in AI_TOKEN_TOPICS :
                       fetch.result.value[t] = IF fetch.oracle[t].kind = "price"
                                               THEN fetch.oracle[t].price
                                               ELSE fallback[t]
           /\ fetch.op = "get_virtual_price" =>
                 fetch.result.value = IF fetch.oracle.kind = "price"
                                      THEN fetch.oracle.price
                                      ELSE 2 * fallback["Virtual/USDT"]

(***************************************************************************)
(* C28, amended: on a cache miss or a forced refresh the oracle is called  *)
(* once per asset.  get_ai_token_predictions returns, for each asset whose *)
(* call fails, that asset's hardcoded fallback, and the cache holds the    *)
(* returned values afterwards.  get_virtual_price returns, when its call   *)
(* fails, the stale cached price if there is one and the hardcoded         *)
(* fallback 20.0 otherwise, and leaves the cache as it was; when the call  *)
(* succeeds the cache holds the returned price.                            *)
(***************************************************************************)
C28_FallbackOrStalePrice ==
    (fetch.op # "none" /\ fetch.done
        /\ (fetch.op = "get_virtual_price" => ~(fetch.cache.set /\ fetch.age < 60))
        /\ (fetch.op = "get_ai_token_predictions" => ~(fetch.cache.set /\ ~fetch.flag)))
    => LET fallback == [t \in AI_TOKEN_TOPICS |->
                           CASE t = "Virtual/USDT" -> 20
                             [] t = "Aixbt/USDT" -> 52
                             [] t = "VaderAI/USDT" -> 51
                             [] t = "Sekoia/USDT" -> 100]
       IN  /\ \A t \in DOMAIN fetch.result.calls : fetch.result.calls[t] = 1
           /\ fetch.op = "get_ai_token_predictions" =>
                 /\ DOMAIN fetch.result.calls = AI_TOKEN_TOPICS
                 /\ fetch.result.cache = [set |-> TRUE, value |-> fetch.result.value]
                 /\ \A t \in AI_TOKEN_TOPICS :
                       fetch.result.value[t] = IF fetch.oracle[t].kind = "price"
                                               THEN fetch.oracle[t].price
                                               ELSE fallback[t]
           /\ fetch.op = "get_virtual_price" =>
                 IF fetch.oracle.kind = "price"
                 THEN /\ fetch.result.value = fetch.oracle.price
                      /\ fetch.result.cache = [set |-> TRUE,
                                               value |-> fetch.result.value]
                 ELSE /\ fetch.result.value = IF fetch.cache.set
                                              THEN fetch.cache.value
                                              ELSE 2 * fallback["Virtual/USDT"]
                      /\ fetch.result.cache = fetch.cache

\* a forced refresh with a populated cache: two topics fail and get their
\* fallbacks, and the cache holds what was returned
C28_Witness ==
    /\ fetch.op = "get_ai_token_predictions" /\ fetch.done
    /\ fetch.cache.set /\ fetch.flag
    /\ fetch.oracle["Aixbt/USDT"].kind = "raises"
    /\ fetch.oracle["VaderAI/USDT"].kind = "malformed"
    /\ fetch.oracle["Sekoia/USDT"].kind = "price"
    /\ fetch.result.value["Aixbt/USDT"] = 52
    /\ fetch.result.value["VaderAI/USDT"] = 51
    /\ fetch.result.cache.value = fetch.result.value

(***************************************************************************)
(* The fetches called by several asyncio tasks at a time.  A task runs     *)
(* until it awaits the oracle; the other tasks run meanwhile.  Neither     *)
(* module holds a lock: the cache is read at the head of the call and      *)
(* assigned after the last await.                                          *)
(***************************************************************************)
Tasks == 1 .. 2

\* the topics in the order of the for loop over AI_TOKEN_TOPICS.items(); the
\* one topic of get_virtual_price
RefreshTopics(fn) ==
    IF fn = "get_ai_token_predictions"
    THEN <<"Virtual/USDT", "Aixbt/USDT", "VaderAI/USDT", "Sekoia/USDT">>
    ELSE <<"Virtual/USDT">>

\* a task calls the fetch: the cached value when there is a fresh one, else
\* the first oracle call is made and awaited
CallFetch(task) ==
    /\ fetch.op = "concurrent"
    /\ fetch.tasks[task].pc = "idle"
    /\ fetch' = IF fetch.cache.set /\ fetch.cache.fresh
                THEN [fetch EXCEPT
                        !.tasks[task] = [pc |-> "returned", topic |-> 0,
                                         predictions |-> fetch.cache.value]]
                ELSE [fetch EXCEPT
                        !.tasks[task] = [pc |-> "awaiting", topic |-> 1,
                                         predictions |-> << >>],
                        !.calls[RefreshTopics(fetch.fn)[1]] = @ + 1]
    /\ UNCHANGED <<decideVars, nonceVars, loopVars, check, main, tried>>

\* the oracle call a task awaits returns or raises: the price or the default
\* is kept, then the next topic is called, or, after the last one, the cache is
\* assigned (get_virtual_price: only when the call did not fail) and the call
\* returns
ReturnInference(task) ==
    /\ fetch.op = "concurrent"
    /\ fetch.tasks[task].pc = "awaiting"
    /\ \E o \in {[kind |-> "price", price |-> 10], [kind |-> "raises", price |-> 0]} :
         LET topics == RefreshTopics(fetch.fn)
             k == fetch.tasks[task].topic
             price == IF fetch.fn = "get_ai_token_predictions"
                      THEN TopicPrice(o, topics[k]).value
                      ELSE TryExcept(TopicInference(o),
                                     IF fetch.cache.set THEN fetch.cache.value[1]
                                     ELSE 40).value
             predictions == Append(fetch.tasks[task].predictions, price)
         IN  fetch' =
               IF k < Len(topics)
               THEN [fetch EXCEPT
                       !.tasks[task] = [pc |-> "awaiting", topic |-> k + 1,
                                        predictions |-> predictions],
                       !.calls[topics[k + 1]] = @ + 1]
               ELSE [fetch EXCEPT
                       !.tasks[task] = [pc |-> "returned", topic |-> k,
                                        predictions |-> predictions],
                       !.cache = IF fetch.fn = "get_virtual_price" /\ o.kind # "price"
                                 THEN fetch.cache
                                 ELSE [set |-> TRUE, fresh |-> TRUE,
                                       value |-> predictions]]
    /\ UNCHANGED <<decideVars, nonceVars, loopVars, check, main, tried>>

\* the cache is empty, or (get_virtual_price) holds a price 60 seconds old
InitRefresh ==
    /\ InitCatalogs
    /\ assigned = [a \in Identities |-> NotAssigned]
    /\ call = NoCall
    /\ InitTraderAgent
    /\ TradingLoopEntry(1, 1, FALSE, 0)
    /\ check = [path |-> "none"]
    /\ main = [pc |-> "idle"]
    /\ tried = [op |-> "none"]
    /\ \E fn \in {"get_ai_token_predictions", "get_virtual_price"},
          stale \in BOOLEAN :
         /\ stale => fn = "get_virtual_price"
         /\ fetch = [op |-> "concurrent", fn |-> fn,
                     cache |-> IF stale
                               THEN [set |-> TRUE, fresh |-> FALSE, value |-> <<36>>]
                               ELSE [set |-> FALSE, fresh |-> FALSE, value |-> << >>],
                     tasks |-> [t \in Tasks |->
                                  [pc |-> "idle", topic |-> 0, predictions |-> << >>]],
                     calls |-> [t \in AI_TOKEN_TOPICS |-> 0]]

NextRefresh == \E task \in Tasks : CallFetch(task) \/ ReturnInference(task)

SpecRefresh == InitRefresh /\ [][NextRefresh]_vars

(***************************************************************************)
(* C29: the refresh of the shared cache is serialized: while tasks fetch   *)
(* with the cache empty or stale, at most one refresh is in flight at any  *)
(* time, and the refresh of get_ai_token_predictions, whose result is      *)
(* always cached, calls the oracle at most once per asset.                 *)
(***************************************************************************)
C29_RefreshSerialized ==
    fetch.op = "concurrent"
    => /\ Cardinality({t \in Tasks : fetch.tasks[t].pc = "awaiting"}) <= 1
       /\ fetch.fn = "get_ai_token_predictions" =>
             \A t \in AI_TOKEN_TOPICS : fetch.calls[t] <= 1

(***************************************************************************)
(* C30: for a personality with action_bias "cyclical", a Virtual price     *)
(* below 15 gives is_bullish = true and action buy, a price above 25 gives *)
(* is_bullish = false and action sell, and a price from 15 to 25, both     *)
(* included, gives is_bullish = (sentiment > bullish_threshold) and action *)
(* buy exactly when is_bullish.  (Prices in half dollars: 30 is 15.00.)    *)
(***************************************************************************)
C30_CyclicalMeanReversion ==
    (call.done /\ call.op = "interpret_virtual_price" /\ call.virtual_price.wellTyped
        /\ call.personality.action_bias = "cyclical")
    => LET p == call.virtual_price.price2
           d == call.outcome.value
           sentiment == (p - 40) * 25
       IN  /\ ~call.outcome.raised
           /\ p < 30 => (d.is_bullish /\ d.action = "buy")
           /\ p > 50 => (~d.is_bullish /\ d.action = "sell")
           /\ (p >= 30 /\ p <= 50) =>
                 /\ d.is_bullish = (sentiment > call.personality.bullish_threshold)
                 /\ (d.action = "buy") = d.is_bullish
                 /\ d.action \in {"buy", "sell"}

\* at exactly 25.00 the price is not overbought: bullish, buy
C30_Witness ==
    /\ call.done /\ call.op = "interpret_virtual_price"
    /\ call.virtual_price.wellTyped /\ call.virtual_price.price2 = 50
    /\ call.personality.action_bias = "cyclical"
    /\ call.outcome.value.is_bullish /\ call.outcome.value.action = "buy"

(***************************************************************************)
(* C31: for a catalog personality with action_bias "cautious" (the trader  *)
(* and predictor catalogs) or "network" (the cities): when the computed    *)
(* confidence is below the personality's confidence_weight the decision is *)
(* is_bullish = false with action sell; otherwise is_bullish is (sentiment *)
(* > bullish_threshold) and the action is buy exactly when is_bullish.     *)
(***************************************************************************)
C31_UncertainIsBearish ==
    (call.done /\ call.op # "none"
        /\ call.personality.action_bias \in {"cautious", "network"}
        /\ (call.op = "interpret_virtual_price" => call.virtual_price.wellTyped)
        /\ (call.op = "interpret_ai_market_prediction" => call.ai_predictions.wellTyped)
        /\ (call.op = "interpret_prediction" => call.prediction_data.wellTyped))
    => LET q == call.personality
           d == call.outcome.value
           confidence ==
               CASE call.op = "interpret_virtual_price" ->
                      VirtualConfidence(call.virtual_price.price2)
                 [] call.op = "interpret_ai_market_prediction" ->
                      AiConfidence(call.ai_predictions.prices)
                 [] OTHER -> PredictionConfidence(call.prediction_data)
           above ==
               CASE call.op = "interpret_virtual_price" ->
                      VirtualSentiment(call.virtual_price.price2) > q.bullish_threshold
                 [] call.op = "interpret_ai_market_prediction" ->
                      AiSentimentAbove(AiAverage(call.ai_predictions.prices),
                                       q.bullish_threshold)
                 [] OTHER -> call.prediction_data.combined_value > q.bullish_threshold
       IN  /\ ~call.outcome.raised
           /\ IF confidence < q.confidence_weight
              THEN ~d.is_bullish /\ d.action = "sell"
              ELSE /\ d.is_bullish = above
                   /\ d.action = (IF d.is_bullish THEN "buy" ELSE "sell")

\* Ersilia at 21.50: the sentiment 0.075 is over her threshold 0.05, the
\* confidence 0.45 under her weight 0.75: bearish, sell
C31_Witness ==
    /\ call.done /\ call.op = "interpret_virtual_price"
    /\ call.virtual_price.wellTyped /\ call.virtual_price.price2 = 43
    /\ call.personality.action_bias = "network"
    /\ ~call.outcome.value.is_bullish /\ call.outcome.value.action = "sell"

(***************************************************************************)
(* C32 as stated: for a personality with action_bias "hedging" the action  *)
(* depends on the parity class of the price (price mod 2) alone, not on    *)
(* is_bullish: the action is the one of the lowest price of the same       *)
(* class (price mod 2 itself, where is_bullish is false).                  *)
(***************************************************************************)
C32_ActionByParityAlone ==
    (call.done /\ call.op = "interpret_virtual_price" /\ call.virtual_price.wellTyped
        /\ call.personality.action_bias = "hedging")
    => call.outcome.value.action =
           interpret_virtual_price([wellTyped |-> TRUE,
                                    price2 |-> call.virtual_price.price2 % 4],
                                   call.personality).value.action

(***************************************************************************)
(* C32, amended: for a personality with action_bias "hedging" the parity   *)
(* check on the price decides how the action follows from is_bullish: when *)
(* price mod 2 is below 1 the action is buy exactly when is_bullish, else  *)
(* it is sell exactly when is_bullish; two inputs with the same parity     *)
(* class and the same is_bullish give the same action.                     *)
(***************************************************************************)
C32_ParityPicksTheSide ==
    (call.done /\ call.op = "interpret_virtual_price" /\ call.virtual_price.wellTyped
        /\ call.personality.action_bias = "hedging")
    => LET p == call.virtual_price.price2
           d == call.outcome.value
       IN  /\ ~call.outcome.raised
           /\ d.is_bullish = ((p - 40) * 25 > call.personality.bullish_threshold)
           /\ d.action = IF (p % 4 < 2) = d.is_bullish THEN "buy" ELSE "sell"

\* Esmeralda at 23.00: bullish, and 23 mod 2 = 1, so she sells
C32_Witness ==
    /\ call.done /\ call.op = "interpret_virtual_price"
    /\ call.virtual_price.wellTyped /\ call.virtual_price.price2 = 46
    /\ call.personality.action_bias = "hedging"
    /\ call.outcome.value.is_bullish /\ call.outcome.value.action = "sell"

(***************************************************************************)
(* C33 as stated: for every personality whose action_bias is balanced,     *)
(* strategic, aggressive or any other value without a dedicated transform, *)
(* the action is buy exactly when is_bullish is true and sell otherwise,   *)
(* whatever the predictions and the confidence.                            *)
(***************************************************************************)
C33_ActionFollowsDirection ==
    (call.done /\ call.op # "none" /\ ~call.outcome.raised
        /\ (call.op = "interpret_virtual_price" => call.virtual_price.wellTyped)
        /\ (call.op = "interpret_ai_market_prediction" => call.ai_predictions.wellTyped)
        /\ (call.op = "interpret_prediction" => call.prediction_data.wellTyped)
        /\ call.personality.action_bias \notin
              {"contrarian", "cautious", "conservative", "momentum", "yolo",
               "cyclical", "network", "hedging"})
    => call.outcome.value.action =
           (IF call.outcome.value.is_bullish THEN "buy" ELSE "sell")

(***************************************************************************)
(* C33, amended: for the action_bias aggressive, and in                    *)
(* interpret_virtual_price for any value without a dedicated transform,    *)
(* the action is buy exactly when is_bullish is true and sell otherwise;   *)
(* for balanced, strategic and any other value without a dedicated         *)
(* transform in interpret_ai_market_prediction and interpret_prediction    *)
(* the action is buy exactly when is_bullish is true and the confidence is *)
(* above 0.3, and sell otherwise.                                          *)
(***************************************************************************)
C33_BalancedNeedsConfidence ==
    (call.done /\ call.op # "none" /\ ~call.outcome.raised
        /\ (call.op = "interpret_virtual_price" => call.virtual_price.wellTyped)
        /\ (call.op = "interpret_ai_market_prediction" => call.ai_predictions.wellTyped)
        /\ (call.op = "interpret_prediction" => call.prediction_data.wellTyped)
        /\ call.personality.action_bias \notin
              {"contrarian", "cautious", "conservative", "momentum", "yolo",
               "cyclical", "network", "hedging"})
    => LET d == call.outcome.value
       IN  IF call.personality.action_bias = "aggressive"
              \/ call.op = "interpret_virtual_price"
           THEN d.action = (IF d.is_bullish THEN "buy" ELSE "sell")
           ELSE d.action = (IF d.is_bullish /\ d.confidence > 300 THEN "buy" ELSE "sell")

\* a balanced trader, prices 90 apart with an average over 55: bullish, the
\* confidence 0.3, and the action is sell
C33_Witness ==
    /\ call.done /\ call.op = "interpret_ai_market_prediction"
    /\ call.ai_predictions.wellTyped
    /\ call.personality.action_bias = "balanced"
    /\ call.outcome.value.is_bullish /\ call.outcome.value.confidence = 300
    /\ call.outcome.value.action = "sell"

(***************************************************************************)
(* C34: every decision an interpreter returns, for every catalog           *)
(* personality and every input (the malformed ones too), has an action     *)
(* that is buy or sell and a confidence from 0 to 1.                       *)
(***************************************************************************)
C34_DecisionWellFormed ==
    (call.done /\ call.op # "none")
    => /\ ~call.outcome.raised
       /\ call.outcome.value.is_bullish \in BOOLEAN
       /\ call.outcome.value.action \in {"buy", "sell"}
       /\ call.outcome.value.confidence >= 0
       /\ call.outcome.value.confidence <= 1000

\* a momentum trader on a strong move with agreeing prices: 1.0 * 1.5 is
\* capped at 1.0
C34_Witness ==
    /\ call.done /\ call.op = "interpret_ai_market_prediction"
    /\ call.ai_predictions.wellTyped
    /\ call.personality.action_bias = "momentum"
    /\ AiConfidence(call.ai_predictions.prices) = 1000
    /\ AiStrongMove(AiAverage(call.ai_predictions.prices))
    /\ call.outcome.value.confidence = 1000

(***************************************************************************)
(* Several agents side by side: two TraderAgent objects and a              *)
(* ProposalAgent, each with its own account and its own self.nonce, and    *)
(* the master account that funds them.  tried.nonce is self.nonce per      *)
(* agent, tried.ledger the transaction count of the agent's address,       *)
(* tried.last the agent and the operation of the latest step.              *)
(***************************************************************************)
\* the number of transactions an agent may send (caps the model)
MaxSends == 2

Agents == {"trader 1", "trader 2", "proposal agent"}

\* a wrong variant: the counter is an attribute of the class, shared by all
StoreNonceShared(nonces, agent, n) == [a \in DOMAIN nonces |-> n]

\* self.nonce = n, an attribute of the instance (set in __init__)
StoreNonce(nonces, agent, n) == [nonces EXCEPT ![agent] = n]

\* one send of an agent: get_nonce (reads the ledger when self.nonce is None),
\* then the transaction is confirmed and increment_nonce adds one, or the send
\* raises and the handler calls reset_nonce, or it raises in a method without
\* a handler
SendTransaction(agent) ==
    /\ tried.op = "agents"
    /\ tried.ledger[agent] < MaxSends
    /\ LET n == IF tried.nonce[agent] = NoNonce THEN tried.ledger[agent]
                ELSE tried.nonce[agent]
       IN  \E outcome \in {"confirmed", "reset_nonce", "raised"} :
             /\ outcome = "confirmed" => n = tried.ledger[agent]
             /\ tried' = [tried EXCEPT
                   !.nonce = StoreNonce(tried.nonce, agent,
                                        CASE outcome = "confirmed" -> n + 1
                                          [] outcome = "reset_nonce" -> tried.ledger[agent]
                                          [] OTHER -> n),
                   !.ledger[agent] = IF outcome = "confirmed" THEN @ + 1 ELSE @,
                   !.last = [agent |-> agent, op |-> outcome]]
    /\ UNCHANGED <<decideVars, nonceVars, loopVars, check, main, fetch>>

\* start_swarm.fund_with_gas: the master account sends gas to the agent's
\* address with the master's nonce; no attribute of any agent is touched
FundWithGas(agent) ==
    /\ tried.op = "agents"
    /\ agent \notin tried.gas
    /\ tried' = [tried EXCEPT !.gas = @ \cup {agent},
                              !.master = @ + 1,
                              !.last = [agent |-> agent, op |-> "fund_with_gas"]]
    /\ UNCHANGED <<decideVars, nonceVars, loopVars, check, main, fetch>>

InitOwnership ==
    /\ InitCatalogs
    /\ assigned = [a \in Identities |-> NotAssigned]
    /\ call = NoCall
    /\ InitTraderAgent
    /\ TradingLoopEntry(1, 1, FALSE, 0)
    /\ check = [path |-> "none"]
    /\ main = [pc |-> "idle"]
    /\ fetch = [op |-> "none"]
    /\ tried = [op |-> "agents",
                nonce |-> [a \in Agents |-> NoNonce],
                ledger |-> [a \in Agents |-> 0],
                gas |-> {},
                master |-> 0,
                last |-> [agent |-> "none", op |-> "none"]]

NextOwnership == \E agent \in Agents : SendTransaction(agent) \/ FundWithGas(agent)

SpecOwnership == InitOwnership /\ [][NextOwnership]_vars

(***************************************************************************)
(* C35: an agent's nonce counter is changed only by that agent's own       *)
(* operations: a step that changes self.nonce of an agent is a send of     *)
(* that agent (with its increment or its resync); no step of another agent *)
(* and no funding by the master account changes it.                        *)
(***************************************************************************)
C35_NonceOwnedByAgent ==
    [][\A a \in Agents :
          tried'.nonce[a] # tried.nonce[a] =>
             /\ tried'.last.agent = a
             /\ tried'.last.op \in {"confirmed", "reset_nonce", "raised"}]_vars

\* both traders have sent, and their counters differ
C35_Witness ==
    /\ tried.op = "agents"
    /\ tried.nonce["trader 1"] = 2
    /\ tried.nonce["trader 2"] = 1
    /\ tried.nonce["proposal agent"] = NoNonce
    /\ tried.gas = Agents

(***************************************************************************)
(* The deposits and the vUSD claims of traders[0] over a run of            *)
(* trading_loop: the up-front deposit, the initial trades, the follow-up   *)
(* trade and the calls of trade() the loop makes with this trader.         *)
(* tried.deposited and tried.claimed are the attributes deposited_<market> *)
(* and claimed_proposal_<id> that trade() sets; tried.deposits and         *)
(* tried.claims count the confirmed depositToMarket and                    *)
(* claimVirtualTokenForProposal transactions of the trader.                *)
(***************************************************************************)
\* focus_proposals = proposal_ids[:min(3, len(proposal_ids))]
FocusProposals == 1 .. 3

\* trading_loop, the up-front deposits: trader.deposit_to_market for every
\* trader, errors printed; no attribute of the trader records the deposit
DepositToMarket ==
    /\ tried.op = "run"
    /\ tried.pos = "deposits"
    /\ \E confirmed \in BOOLEAN :
          tried' = [tried EXCEPT !.pos = "initial",
                                 !.deposits = IF confirmed THEN @ + 1 ELSE @]
    /\ UNCHANGED <<decideVars, nonceVars, loopVars, check, main, fetch>>

\* trading_loop, the initial trades: traders[0] claims vUSD for each focus
\* proposal in turn, errors printed
InitialClaim ==
    /\ tried.op = "run"
    /\ tried.pos = "initial"
    /\ \E confirmed \in BOOLEAN :
          tried' = [tried EXCEPT
              !.pos = IF tried.proposal = Cardinality(FocusProposals)
                      THEN "follow-up" ELSE @,
              !.proposal = IF tried.proposal = Cardinality(FocusProposals)
                           THEN 1 ELSE @ + 1,
              !.claims[tried.proposal] = IF confirmed THEN @ + 1 ELSE @]
    /\ UNCHANGED <<decideVars, nonceVars, loopVars, check, main, fetch>>

\* trading_loop, the follow-up trades: traders[i] claims for the i-th focus
\* proposal, so traders[0] claims for the first one again
FollowUpClaim ==
    /\ tried.op = "run"
    /\ tried.pos = "follow-up"
    /\ \E confirmed \in BOOLEAN :
          tried' = [tried EXCEPT !.pos = "loop",
                                 !.claims[1] = IF confirmed THEN @ + 1 ELSE @]
    /\ UNCHANGED <<decideVars, nonceVars, loopVars, check, main, fetch>>

\* TraderAgent.trade, its deposit and claim: skipped when
\* claimed_proposal_<id> is set; the deposit skipped when deposited_<market>
\* is set; an exception leaves trade() before the attribute is set
TradeDepositAndClaim(proposal_id) ==
    /\ tried.op = "run"
    /\ tried.pos = "loop"
    /\ proposal_id \notin tried.claimed
    /\ \E deposit \in BOOLEAN, claim \in BOOLEAN :
          LET needed == ~tried.deposited
              deposited == tried.deposited \/ deposit
          IN  tried' = [tried EXCEPT
                  !.deposited = deposited,
                  !.deposits = IF needed /\ deposit THEN @ + 1 ELSE @,
                  !.claimed = IF deposited /\ claim
                              THEN @ \cup {proposal_id} ELSE @,
                  !.claims[proposal_id] = IF deposited /\ claim
                                          THEN @ + 1 ELSE @]
    /\ UNCHANGED <<decideVars, nonceVars, loopVars, check, main, fetch>>

InitDeposits ==
    /\ InitCatalogs
    /\ assigned = [a \in Identities |-> NotAssigned]
    /\ call = NoCall
    /\ InitTraderAgent
    /\ TradingLoopEntry(1, 1, FALSE, 0)
    /\ check = [path |-> "none"]
    /\ main = [pc |-> "idle"]
    /\ fetch = [op |-> "none"]
    /\ tried = [op |-> "run", pos |-> "deposits", proposal |-> 1,
                deposited |-> FALSE, claimed |-> {},
                deposits |-> 0,
                claims |-> [p \in FocusProposals |-> 0]]

NextDeposits ==
    \/ DepositToMarket
    \/ InitialClaim
    \/ FollowUpClaim
    \/ \E proposal_id \in FocusProposals : TradeDepositAndClaim(proposal_id)

SpecDeposits == InitDeposits /\ [][NextDeposits]_vars

(***************************************************************************)
(* C36: over a whole swarm run a trader deposits to the market at most     *)
(* once and claims vUSD for a proposal at most once, the orchestrator's    *)
(* up-front deposit and initial trades counted with those of trade().      *)
(***************************************************************************)
C36_DepositAndClaimOnce ==
    tried.op = "run" =>
       /\ tried.deposits <= 1
       /\ \A p \in FocusProposals : tried.claims[p] <= 1

(***************************************************************************)
(* initialize() of one agent, called any number of times (TraderAgent and  *)
(* ProposalAgent have the same code).  tried.funded is self.funded,        *)
(* tried.sent the faucet transactions the agent sent, tried.succeeded      *)
(* those confirmed with status 1, tried.waiting those sent whose receipt   *)
(* the agent stopped waiting for, tried.last the latest call's outcome.    *)
(***************************************************************************)
\* the number of initialize() calls on the agent (caps the model)
MaxCalls == 4

\* what get_faucet_tokens can meet: the node rejects the transaction (the send
\* raises), the wait for the receipt times out (raises), the receipt has
\* status 0 (the code raises), the receipt has status 1
FaucetOutcomes == {"rejected", "timed out", "status 0", "status 1"}

\* a wrong variant: the flag is set whatever the faucet call did
initialize_in_finally(is_funded, outcome) ==
    IF is_funded THEN [funded |-> TRUE, sent |-> 0, outcome |-> "funded already"]
    ELSE [funded |-> TRUE,
          sent |-> IF outcome = "rejected" THEN 0 ELSE 1,
          outcome |-> outcome]

\* initialize(): if not self.funded: await self.get_faucet_tokens();
\* self.funded = True -- a raise in get_faucet_tokens skips the assignment
initialize(is_funded, outcome) ==
    IF is_funded THEN [funded |-> TRUE, sent |-> 0, outcome |-> "funded already"]
    ELSE [funded |-> outcome = "status 1",
          sent |-> IF outcome = "rejected" THEN 0 ELSE 1,
          outcome |-> outcome]

CallInitialize ==
    /\ tried.op = "initialize"
    /\ tried.calls < MaxCalls
    /\ \E outcome \in FaucetOutcomes :
          LET r == initialize(tried.funded, outcome)
          IN  tried' = [tried EXCEPT
                  !.calls = @ + 1,
                  !.funded = r.funded,
                  !.sent = @ + r.sent,
                  !.succeeded = IF r.outcome = "status 1" THEN @ + 1 ELSE @,
                  !.waiting = IF r.outcome = "timed out" THEN @ + 1 ELSE @,
                  !.last = r.outcome]
    /\ UNCHANGED <<decideVars, nonceVars, loopVars, check, main, fetch>>

\* the ledger mines a faucet transaction the agent no longer waits for
MineFaucet ==
    /\ tried.op = "initialize"
    /\ tried.waiting > 0
    /\ \E receipt_status \in 0 .. 1 :
          tried' = [tried EXCEPT !.waiting = @ - 1,
                                 !.succeeded = @ + receipt_status,
                                 !.last = "mined"]
    /\ UNCHANGED <<decideVars, nonceVars, loopVars, check, main, fetch>>

InitInitialize ==
    /\ InitCatalogs
    /\ assigned = [a \in Identities |-> NotAssigned]
    /\ call = NoCall
    /\ InitTraderAgent
    /\ TradingLoopEntry(1, 1, FALSE, 0)
    /\ check = [path |-> "none"]
    /\ main = [pc |-> "idle"]
    /\ fetch = [op |-> "none"]
    /\ tried = [op |-> "initialize", funded |-> FALSE, calls |-> 0,
                sent |-> 0, succeeded |-> 0, waiting |-> 0, last |-> "none"]

NextInitialize == CallInitialize \/ MineFaucet

SpecInitialize == InitInitialize /\ [][NextInitialize]_vars

(***************************************************************************)
(* C37: funded is true only if a faucet transaction of the agent was       *)
(* confirmed with success status; an initialize() call on a funded agent   *)
(* sends no transaction; a call whose faucet draw failed leaves funded     *)
(* false.                                                                  *)
(***************************************************************************)
C37_FundedOnlyByFaucetSuccess ==
    [][/\ tried'.funded => tried'.succeeded >= 1
       /\ (tried.funded /\ tried'.calls # tried.calls) =>
              /\ tried'.sent = tried.sent
              /\ tried'.funded
       /\ (tried'.calls # tried.calls
           /\ tried'.last \in {"rejected", "timed out", "status 0"}) =>
              ~tried'.funded]_vars

\* a failed draw, then a successful initialize, then a further call that
\* sent nothing
C37_Witness ==
    /\ tried.op = "initialize"
    /\ tried.calls = 3
    /\ tried.funded
    /\ tried.sent = 2
    /\ tried.succeeded = 1
    /\ tried.last = "funded already"

(***************************************************************************)
(* C38: in get_virtual_price a refresh whose oracle call fails leaves the  *)
(* cached price and the timestamp as they were, so the next call, at that  *)
(* time or later, calls the oracle again whatever the oracle then does.    *)
(***************************************************************************)
C38_FailedRefreshLeavesCache ==
    (/\ fetch.op = "get_virtual_price" /\ fetch.done
     /\ ~(fetch.cache.set /\ fetch.age < 60)
     /\ TopicInference(fetch.oracle).raised) =>
        /\ fetch.result.cache = fetch.cache
        /\ fetch.result.age = fetch.age
        /\ \A elapsed \in {0, 1, 60} :
             \A o \in {[kind |-> "price", price |-> 10],
                       [kind |-> "raises", price |-> 0]} :
                get_virtual_price(fetch.result.cache,
                                  fetch.result.age + elapsed,
                                  o).calls["Virtual/USDT"] = 1

\* the empty cache and a failing oracle: 20.0 is returned and nothing cached
C38_Witness ==
    /\ fetch.op = "get_virtual_price" /\ fetch.done
    /\ ~fetch.cache.set
    /\ fetch.oracle.kind = "raises"
    /\ fetch.result.value = 40
    /\ ~fetch.result.cache.set

(***************************************************************************)
(* The API server's swarm launches for one market.  tried.swarm_processes  *)
(* is state.swarm_processes[market_id] (the request whose process is       *)
(* registered, NoProcess when the key is absent), tried.task the position  *)
(* of each launch request and of its background task, tried.running the    *)
(* swarm processes alive.  The handlers are coroutines on one event loop:  *)
(* a step runs from one await to the next.                                 *)
(***************************************************************************)
Requests == 1 .. 3

NoProcess == 0

\* launch_swarm up to its return: HTTP 400 when the market has a registered
\* process, else the background task is added and "launched" is returned
LaunchSwarm(request) ==
    /\ tried.op = "server"
    /\ tried.task[request] = "none"
    /\ tried' = [tried EXCEPT
            !.task[request] = IF tried.swarm_processes # NoProcess
                              THEN "rejected" ELSE "accepted"]
    /\ UNCHANGED <<decideVars, nonceVars, loopVars, check, main, fetch>>

\* run_swarm_with_updates after its awaits (the broadcast and
\* create_subprocess_exec): the process runs and is registered,
\* state.swarm_processes[market_id] = process
CreateSubprocess(request) ==
    /\ tried.op = "server"
    /\ tried.task[request] = "accepted"
    /\ tried' = [tried EXCEPT !.task[request] = "running",
                              !.running = @ \cup {request},
                              !.swarm_processes = request]
    /\ UNCHANGED <<decideVars, nonceVars, loopVars, check, main, fetch>>

\* run_swarm_with_updates after the process ended (by itself or terminated):
\* finally: if market_id in state.swarm_processes: del it
FinishTask(request) ==
    /\ tried.op = "server"
    /\ tried.task[request] = "running"
    /\ tried' = [tried EXCEPT !.task[request] = "finished",
                              !.running = @ \ {request},
                              !.swarm_processes = NoProcess]
    /\ UNCHANGED <<decideVars, nonceVars, loopVars, check, main, fetch>>

\* stop_swarm: the registered process is terminated and the key deleted
StopSwarm ==
    /\ tried.op = "server"
    /\ tried.swarm_processes # NoProcess
    /\ tried' = [tried EXCEPT !.running = @ \ {tried.swarm_processes},
                              !.swarm_processes = NoProcess]
    /\ UNCHANGED <<decideVars, nonceVars, loopVars, check, main, fetch>>

InitServer ==
    /\ InitCatalogs
    /\ assigned = [a \in Identities |-> NotAssigned]
    /\ call = NoCall
    /\ InitTraderAgent
    /\ TradingLoopEntry(1, 1, FALSE, 0)
    /\ check = [path |-> "none"]
    /\ main = [pc |-> "idle"]
    /\ fetch = [op |-> "none"]
    /\ tried = [op |-> "server",
                swarm_processes |-> NoProcess,
                task |-> [r \in Requests |-> "none"],
                running |-> {}]

NextServer ==
    \/ \E request \in Requests :
          \/ LaunchSwarm(request)
          \/ CreateSubprocess(request)
          \/ FinishTask(request)
    \/ StopSwarm

SpecServer == InitServer /\ [][NextServer]_vars

(***************************************************************************)
(* C39: the server runs at most one swarm process per market at any time,  *)
(* and at most one launch request for the market is accepted and not yet   *)
(* finished: a request arriving while a swarm runs or is being started is  *)
(* rejected.                                                               *)
(***************************************************************************)
C39_OneSwarmPerMarket ==
    tried.op = "server" =>
       /\ Cardinality(tried.running) <= 1
       /\ Cardinality({r \in Requests :
                          tried.task[r] \in {"accepted", "running"}}) <= 1

(***************************************************************************)
(* The GAME trader's worker state.  A function result is the info dict of  *)
(* an executable (a record; {} is the empty function); get_worker_state    *)
(* folds it into the state.  tried.state is the worker state,              *)
(* tried.claimed the proposals a claim_vusd call succeeded for.            *)
(***************************************************************************)
ProposalIds == 1 .. 3

EmptyInfo == << >>

\* the info dicts of the executables: {} when the function failed (status 0 or
\* an exception)
claim_vusd_info(proposal_id, done) ==
    IF done THEN [proposal_id |-> proposal_id, tx_hash |-> "0x"] ELSE EmptyInfo

mint_yes_no_tokens_info(proposal_id, done) ==
    IF done THEN [proposal_id |-> proposal_id, amount |-> 1, tx_hash |-> "0x"]
    ELSE EmptyInfo

deposit_to_market_info(done) ==
    IF done THEN [market_id |-> 1, amount |-> 1, tx_hash |-> "0x"] ELSE EmptyInfo

get_faucet_tokens_info(done) ==
    IF done THEN [tx_hash |-> "0x", balance |-> 1] ELSE EmptyInfo

AppendIfAbsent(list, x) ==
    IF \E n \in DOMAIN list : list[n] = x THEN list ELSE Append(list, x)

\* get_worker_state(function_result, current_state), current_state not None
get_worker_state(info, current_state) ==
    IF info = EmptyInfo THEN current_state
    ELSE [has_faucet_tokens |->
              current_state.has_faucet_tokens \/ "balance" \in DOMAIN info,
          deposited_markets |->
              IF "market_id" \in DOMAIN info /\ "amount" \in DOMAIN info
              THEN AppendIfAbsent(current_state.deposited_markets, info.market_id)
              ELSE current_state.deposited_markets,
          claimed_proposals |->
              IF "proposal_id" \in DOMAIN info /\ "tx_hash" \in DOMAIN info
              THEN AppendIfAbsent(current_state.claimed_proposals, info.proposal_id)
              ELSE current_state.claimed_proposals]

\* one function call of the worker and the state update that follows it
ClaimVusdResult(proposal_id) ==
    /\ tried.op = "worker"
    /\ \E done \in BOOLEAN :
          tried' = [tried EXCEPT
              !.state = get_worker_state(claim_vusd_info(proposal_id, done), @),
              !.claimed = IF done THEN @ \cup {proposal_id} ELSE @]
    /\ UNCHANGED <<decideVars, nonceVars, loopVars, check, main, fetch>>

MintYesNoTokensResult(proposal_id) ==
    /\ tried.op = "worker"
    /\ \E done \in BOOLEAN :
          tried' = [tried EXCEPT
              !.state = get_worker_state(mint_yes_no_tokens_info(proposal_id, done), @)]
    /\ UNCHANGED <<decideVars, nonceVars, loopVars, check, main, fetch>>

DepositToMarketResult ==
    /\ tried.op = "worker"
    /\ \E done \in BOOLEAN :
          tried' = [tried EXCEPT
              !.state = get_worker_state(deposit_to_market_info(done), @)]
    /\ UNCHANGED <<decideVars, nonceVars, loopVars, check, main, fetch>>

GetFaucetTokensResult ==
    /\ tried.op = "worker"
    /\ \E done \in BOOLEAN :
          tried' = [tried EXCEPT
              !.state = get_worker_state(get_faucet_tokens_info(done), @)]
    /\ UNCHANGED <<decideVars, nonceVars, loopVars, check, main, fetch>>

\* get_worker_state(None, None): the first state
InitWorker ==
    /\ InitCatalogs
    /\ assigned = [a \in Identities |-> NotAssigned]
    /\ call = NoCall
    /\ InitTraderAgent
    /\ TradingLoopEntry(1, 1, FALSE, 0)
    /\ check = [path |-> "none"]
    /\ main = [pc |-> "idle"]
    /\ fetch = [op |-> "none"]
    /\ tried = [op |-> "worker",
                state |-> [has_faucet_tokens |-> FALSE,
                           deposited_markets |-> << >>,
                           claimed_proposals |-> << >>],
                claimed |-> {}]

NextWorker ==
    \/ \E proposal_id \in ProposalIds :
          \/ ClaimVusdResult(proposal_id)
          \/ MintYesNoTokensResult(proposal_id)
    \/ DepositToMarketResult
    \/ GetFaucetTokensResult

SpecWorker == InitWorker /\ [][NextWorker]_vars

(***************************************************************************)
(* C40: in the GAME trader's worker state claimed_proposals holds a        *)
(* proposal id only if a claim_vusd call for that proposal succeeded, and  *)
(* holds no id twice.                                                      *)
(***************************************************************************)
C40_ClaimedOnlyByClaim ==
    tried.op = "worker" =>
       LET list == tried.state.claimed_proposals
       IN  /\ \A n \in DOMAIN list : list[n] \in tried.claimed
           /\ \A n, k \in DOMAIN list : list[n] = list[k] => n = k

====
